---- MODULE Spec2Model ----
(***************************************************************************)
(* The display core of pixel_zero: Graphics::load, Graphics::present_frame *)
(* and the drop of Graphics (graphics/mod.rs), Drm::load and the drop of   *)
(* Drm (graphics/drm.rs), the terminal guard (terminal.rs) and the escape  *)
(* key of the input poll (input/mod.rs), run by a set of callers against a *)
(* model of the kernel mode-setting device.                                *)
(***************************************************************************)
EXTENDS Integers, Sequences, FiniteSets, TLC

\* The threads that call into the core.
Callers == {"t1", "t2"}

\* ---------------------------------------------------------------- bounds
\* Scanout handles one open device file may hold registered at a time.
MaxHandles == 3
\* Events that may wait unread on one open device file.
MaxEvents == 2
\* Buffers in the rotation of one gbm surface.
NumBuffers == 2

\* ------------------------------------------------------------- hardware
\* An absent handle (Option::None of a handle, a disabled CRTC's buffer or mode).
None == 0

NoOriginalState ==
  [some |-> FALSE, crtc |-> None, framebuffer |-> None, position |-> <<0, 0>>,
   connectors |-> <<>>, mode |-> None]

\* The outputs of the device, in enumeration order. Output 1 is unplugged,
\* output 2 is connected and lists its preferred mode second.
HwConnectors ==
  << [handle |-> 1, connected |-> FALSE, encoders |-> <<2>>, modes |-> <<>>],
     [handle |-> 2, connected |-> TRUE, encoders |-> <<1, 2>>,
      modes |-> << [id |-> 1, preferred |-> FALSE], [id |-> 2, preferred |-> TRUE] >>] >>

HwNoneConnected ==
  << [handle |-> 1, connected |-> FALSE, encoders |-> <<2>>, modes |-> <<>>],
     [handle |-> 2, connected |-> FALSE, encoders |-> <<1, 2>>, modes |-> <<>>] >>

DisabledCrtc == [fb |-> None, pos |-> <<0, 0>>, mode |-> None]

\* The listing of /dev/dri on a machine with one display controller: what
\* read_dir yields, entry by entry. An entry can be read or not, is a character
\* device or not, has a name that starts with "card" or not, and can be opened
\* for reading and writing or not.
DevDri == << [readable |-> TRUE, char_device |-> TRUE, card |-> TRUE, opens |-> TRUE] >>

\* The buffer a firmware splash or a previous process left on a CRTC.
BootCrtc == [fb |-> 1, pos |-> <<1, 0>>, mode |-> 1]

\* The buffers that belong to other owners (the boot splash): the process can
\* neither register nor destroy them, and they outlive it.
ForeignFbs == {BootCrtc.fb}

\* What the kernel holds when the process starts: the outputs, each output's
\* current encoder, each encoder's current CRTC, each CRTC's binding.
\*  HwBound   output 2 is driven through encoder 1 by CRTC 1 (a boot splash).
\*  HwNoOrig  output 2 is dark; its second encoder is attached to CRTC 2.
\*  HwDiff    output 2 is driven through encoder 2 by CRTC 2, and its first
\*            listed encoder is attached to CRTC 1.
\*  HwDark    no output is connected.
HwBound ==
  [connectors |-> HwConnectors, conn_enc |-> <<None, 1>>, enc_crtc |-> <<1, None>>,
   crtc |-> <<BootCrtc, DisabledCrtc>>,
   nodes |-> DevDri, crtc_unreadable |-> {}]
HwNoOrig ==
  [connectors |-> HwConnectors, conn_enc |-> <<2, None>>, enc_crtc |-> <<None, 2>>,
   crtc |-> <<DisabledCrtc, BootCrtc>>,
   nodes |-> DevDri, crtc_unreadable |-> {}]
HwDiff ==
  [connectors |-> HwConnectors, conn_enc |-> <<None, 2>>, enc_crtc |-> <<1, 2>>,
   crtc |-> <<DisabledCrtc, BootCrtc>>,
   nodes |-> DevDri, crtc_unreadable |-> {}]
HwDark ==
  [connectors |-> HwNoneConnected, conn_enc |-> <<None, None>>,
   enc_crtc |-> <<None, None>>, crtc |-> <<DisabledCrtc, DisabledCrtc>>,
   nodes |-> DevDri, crtc_unreadable |-> {}]

\*  HwNoModes output 2 is connected and lists no mode.
HwNoModes ==
  [connectors |->
     << [handle |-> 1, connected |-> FALSE, encoders |-> <<2>>, modes |-> <<>>],
        [handle |-> 2, connected |-> TRUE, encoders |-> <<1, 2>>, modes |-> <<>>] >>,
   conn_enc |-> <<None, None>>, enc_crtc |-> <<1, 2>>,
   crtc |-> <<DisabledCrtc, DisabledCrtc>>,
   nodes |-> DevDri, crtc_unreadable |-> {}]

Hardware == {HwBound, HwNoOrig, HwDiff, HwDark, HwNoModes}

Crtcs == {1, 2}

\* ------------------------------------------------ the kernel's mode-setting
\* The CRTC an output is driven by now, through its current encoder.
CrtcOf(k, conn) ==
  IF k.conn_enc[conn] = None THEN None ELSE k.enc_crtc[k.conn_enc[conn]]

\* The encoder the driver routes an output through when it is mode-set.
BestEncoder(k, conn) == k.connectors[conn].encoders[1]

\* drmModeSetCrtc: bind (fb, pos, mode) to CRTC c and route the outputs conns to
\* it; outputs and encoders that were on c and are not kept are detached. With
\* no buffer or no mode the CRTC is switched off.
KSetCrtc(k, c, fb, pos, conns, mode) ==
  LET on == fb # None /\ mode # None
      S == IF on THEN {conns[i] : i \in DOMAIN conns} ELSE {}
      taken == {BestEncoder(k, j) : j \in S}
  IN [k EXCEPT
        !.conn_enc = [i \in DOMAIN k.conn_enc |->
                        IF i \in S THEN BestEncoder(k, i)
                        ELSE IF CrtcOf(k, i) = c \/ k.conn_enc[i] \in taken THEN None
                        ELSE k.conn_enc[i]],
        !.enc_crtc = [e \in DOMAIN k.enc_crtc |->
                        IF e \in taken THEN c
                        ELSE IF k.enc_crtc[e] = c \/ (\E i \in S : k.conn_enc[i] = e)
                             THEN None
                        ELSE k.enc_crtc[e]],
        !.crtc[c] = IF on THEN [fb |-> fb, pos |-> pos, mode |-> mode]
                    ELSE DisabledCrtc]

\* drmModeRmFB, and the release of a file's buffers when it is closed: a CRTC
\* that scans out a removed buffer is switched off and its outputs detached.
KRmFbs(k, gone) ==
  LET off == {c \in Crtcs : k.crtc[c].fb \in gone}
  IN [k EXCEPT
        !.conn_enc = [i \in DOMAIN k.conn_enc |->
                        IF CrtcOf(k, i) \in off THEN None ELSE k.conn_enc[i]],
        !.enc_crtc = [e \in DOMAIN k.enc_crtc |->
                        IF k.enc_crtc[e] \in off THEN None ELSE k.enc_crtc[e]],
        !.crtc = [c \in Crtcs |-> IF c \in off THEN DisabledCrtc ELSE k.crtc[c]]]

\* The id the kernel gives a new object: the lowest one not in use.
LowestFree(used) == CHOOSE i \in 1..(Cardinality(used) + 1) :
                      i \notin used /\ \A j \in 1..(i - 1) : j \in used

\* ------------------------------------------------------------ Drm::load
\* The first of the indices I of a list, 0 when there is none.
FirstIndex(I) == IF I = {} THEN 0 ELSE CHOOSE i \in I : \A j \in I : i <= j

\* Gpu::open (drm.rs:160-181): the loop over the listing ends at the first
\* entry that cannot be read (drm.rs:163-164) or that is a character device
\* named card* (drm.rs:164-173); an unreadable entry is an error, a card node
\* is opened and the outcome of that open is the outcome of the call
\* (drm.rs:174-175). A loop that runs out of entries is NotFound.
GpuOpen(nodes) ==
  LET i == FirstIndex({j \in DOMAIN nodes :
                         \/ ~nodes[j].readable
                         \/ nodes[j].char_device /\ nodes[j].card})
  IN IF i = 0 THEN "NotFound"
     ELSE IF nodes[i].readable /\ nodes[i].opens THEN "Ok"
     ELSE "Failed"

\* A test that takes every output for connected.
IsAnyState(connector) == TRUE

IsConnected(connector) == connector.connected

\* drm.rs:48-55: the first output that reports the connected state.
FindConnector(k) ==
  FirstIndex({i \in DOMAIN k.connectors : IsConnected(k.connectors[i])})

\* drm.rs:57-60: the CRTC behind the output's current encoder.
OriginalCrtc(k, conn) == CrtcOf(k, conn)

\* drm.rs:62-85: the snapshot of that CRTC and of the outputs it drives.
CaptureOriginalState(k, conn) ==
  LET crtc == OriginalCrtc(k, conn)
      drives(c) == CrtcOf(k, c.handle) = crtc
      driven == SelectSeq(k.connectors, drives)
  IN IF crtc = None THEN NoOriginalState
     ELSE [some |-> TRUE, crtc |-> crtc, framebuffer |-> k.crtc[crtc].fb,
           position |-> k.crtc[crtc].pos,
           connectors |-> [i \in DOMAIN driven |-> driven[i].handle],
           mode |-> k.crtc[crtc].mode]

IsPreferred(mode) == mode.preferred

\* A selection that takes the first mode whatever its flags.
SelectFirstMode(modes) == modes[1].id

\* drm.rs:87-91: the first mode flagged preferred, else the first mode.
SelectMode(modes) ==
  LET i == FirstIndex({j \in DOMAIN modes : IsPreferred(modes[j])})
  IN IF i # 0 THEN modes[i].id ELSE modes[1].id

\* drm.rs:93-102: the CRTC of the first listed encoder that has one which
\* get_crtc can read (flat_map drops the failed queries).
SelectCrtc(k, conn) ==
  LET encs == k.connectors[conn].encoders
      i == FirstIndex({j \in DOMAIN encs : /\ k.enc_crtc[encs[j]] # None
                                           /\ k.enc_crtc[encs[j]] \notin k.crtc_unreadable})
  IN IF i = 0 THEN None ELSE k.enc_crtc[encs[i]]

NoDrm ==
  [open |-> FALSE, connector |-> None, mode |-> None, crtc |-> None,
   original_state |-> NoOriginalState]

\* The Drm value a successful Drm::load returns (drm.rs:104-110).
LoadedDrm(k) ==
  LET conn == FindConnector(k)
  IN [open |-> TRUE, connector |-> conn, mode |-> SelectMode(k.connectors[conn].modes),
      crtc |-> SelectCrtc(k, conn), original_state |-> CaptureOriginalState(k, conn)]

\* ----------------------------------------------------------------- state
VARIABLES
  kms,              \* the kernel's outputs, encoders and CRTC bindings
  flip,             \* per CRTC, the page flip waiting for the next vblank
  fbs,              \* per caller, the scanout handles its device file holds
  events,           \* per caller, the events unread on its device file
  last_modeset,     \* the last mode-set any caller issued
  GRAPHICS_LOADED,  \* mod.rs:78
  CREATED,          \* terminal.rs:14
  pc,               \* per caller, where it is
  gfx,              \* per caller, the Graphics it builds, holds or tears down
  steps,            \* per caller, what its current or last call has done so far
  result,           \* per caller, what its last call returned
  exited,           \* the process has ended
  frame,            \* the Frame the caller builds and hands to present_frame
  target,           \* the GL framebuffer that is bound: off-screen or screen
  canvas,           \* the colour of a probe pixel of the off-screen texture
  screen,           \* the colour of that pixel on the on-screen drawable
  calls,            \* the clears and draws Framebuffer::present_frame has issued
  rpc,              \* where the frame and its rendering are
  command_index,    \* the position of the loop of framebuffer.rs:160
  char_index,       \* the position of the loop of framebuffer.rs:234
  advance,          \* framebuffer.rs:233
  elapsed,          \* frame_start.elapsed() at mod.rs:163, in microseconds
  slept,            \* the duration handed to std::thread::sleep at mod.rs:163
  paced,            \* the sleep of mod.rs:163 has been issued
  current_state,    \* input/mod.rs:64: per button, pressed at the latest update
  previous_state,   \* input/mod.rs:65: per button, pressed at the update before
  LOADED,           \* launcher/src/graphics.rs:36
  lpc,              \* per caller, where it is in the launcher's GraphicsContext::load
  lresult,          \* per caller, what its last GraphicsContext::load returned
  master,           \* the caller whose device file is the DRM master, if any
  ui,               \* ui/mod.rs:168-180: the UiInner behind the Ui's mutex
  ui_log            \* what the latest Ui call did and what the frame has seen

display_vars == <<kms, flip, fbs, events, last_modeset, GRAPHICS_LOADED, CREATED,
                  pc, gfx, steps, result, exited>>

render_vars == <<frame, target, canvas, screen, calls, rpc, command_index,
                 char_index, advance>>

pacing_vars == <<elapsed, slept, paced>>

input_vars == <<current_state, previous_state>>

launcher_vars == <<LOADED, lpc, lresult, master>>

ui_vars == <<ui, ui_log>>

app_vars == <<launcher_vars, ui_vars>>

vars == <<display_vars, render_vars, pacing_vars, input_vars, app_vars>>

NoFlip == [fb |-> None, by |-> "nobody"]

NoModeset ==
  [by |-> "nobody", restore |-> FALSE, crtc |-> None, framebuffer |-> None,
   position |-> <<0, 0>>, connectors |-> <<>>, mode |-> None, ok |-> FALSE]

\* The swap interval of a caller that has no EGL surface.
NoSurface == -1

\* The swap interval of a new EGL surface: 1, until eglSwapInterval is called.
DefaultSwapInterval == 1

\* No Graphics: what a caller has before load() and after the drop.
NoGraphics ==
  [terminal_guard |-> FALSE, drm |-> NoDrm, gbm |-> FALSE, egl |-> FALSE,
   framebuffer |-> FALSE, drm_fb |-> None, buffer_object |-> None,
   locked |-> {}, front |-> FALSE, swap_interval |-> NoSurface,
   surface |-> "none", window |-> "none", acquired |-> {},
   new_fb |-> None, new_bo |-> None, batch |-> {}, gpu_refs |-> 0,
   fps |-> 0, fps_frames |-> 0, fps_elapsed |-> 0]

\* A Drm that hands its own reference to the device file over.
gpu_arc_moved(refs) == refs

\* drm.rs:124-126: Drm::gpu_arc clones the Arc<Gpu>; refs is the number of
\* references to the device file, which is closed when the last one goes.
gpu_arc(refs) == refs + 1

Buffers == 1..NumBuffers

FlipEvent(fb) == [kind |-> "PageFlip", fb |-> fb]
OtherEvent == [kind |-> "Vblank", fb |-> None]

\* The display side of the process when it starts, on one of the devices hw.
InitDisplay(hw) ==
  /\ kms \in hw
  /\ flip = [c \in Crtcs |-> NoFlip]
  /\ fbs = [t \in Callers |-> {}]
  /\ events = [t \in Callers |-> {}]
  /\ last_modeset = NoModeset
  /\ GRAPHICS_LOADED = FALSE
  /\ CREATED = FALSE
  /\ pc = [t \in Callers |-> "idle"]
  /\ gfx = [t \in Callers |-> NoGraphics]
  /\ steps = [t \in Callers |-> <<>>]
  /\ result = [t \in Callers |-> "none"]
  /\ exited = FALSE

\* Every scanout buffer id in use in the kernel.
UsedFbs == ForeignFbs \cup UNION {fbs[t] : t \in Callers}

\* The flips that survive the removal of the buffers gone, under bindings k.
FlipsAfter(f, k, gone) ==
  [c \in Crtcs |-> IF f[c].fb \in gone \/ k.crtc[c].fb = None THEN NoFlip ELSE f[c]]

\* The record of a mode-set request.
Modeset(t, restore, c, fb, pos, conns, mode, ok) ==
  [by |-> t, restore |-> restore, crtc |-> c, framebuffer |-> fb, position |-> pos,
   connectors |-> conns, mode |-> mode, ok |-> ok]

\* A restore that binds what the process itself had selected.
RestoreArgsSelected(d) ==
  [crtc |-> d.crtc, framebuffer |-> d.original_state.framebuffer,
   position |-> <<0, 0>>, connectors |-> <<d.connector>>, mode |-> d.mode]

\* drm.rs:144-150: the arguments of the restoring mode-set.
RestoreArgs(d) ==
  [crtc |-> d.original_state.crtc, framebuffer |-> d.original_state.framebuffer,
   position |-> d.original_state.position,
   connectors |-> d.original_state.connectors, mode |-> d.original_state.mode]

\* Drop for Drm (drm.rs:141-153): with a captured state, the restoring mode-set.
RestoreModeset(t, d, ok) ==
  Modeset(t, TRUE, RestoreArgs(d).crtc, RestoreArgs(d).framebuffer,
          RestoreArgs(d).position, RestoreArgs(d).connectors, RestoreArgs(d).mode, ok)

\* The kernel's bindings after the drop of a Drm d that holds the handles mine:
\* the restoring mode-set if a state was captured (accepted by the kernel or
\* not), then the close of the device file, which releases its handles.
KmsAfterDrmDrop(k, d, mine, ok) ==
  LET a == RestoreArgs(d)
      r == IF d.original_state.some /\ ok
           THEN KSetCrtc(k, a.crtc, a.framebuffer, a.position, a.connectors, a.mode)
           ELSE k
  IN KRmFbs(r, mine)

\* The whole effect of dropping caller t's Drm on the kernel-side variables.
DrmDropEffect(t, ok, lm) ==
  LET d == gfx[t].drm
      k == KmsAfterDrmDrop(kms, d, fbs[t], ok)
      f == IF d.original_state.some /\ ok
           THEN [flip EXCEPT ![RestoreArgs(d).crtc] = NoFlip] ELSE flip
  IN /\ kms' = k
     /\ flip' = [c \in Crtcs |-> IF f[c].by = t THEN NoFlip
                                 ELSE FlipsAfter(f, k, fbs[t])[c]]
     /\ fbs' = [fbs EXCEPT ![t] = {}]
     /\ events' = [events EXCEPT ![t] = {}]
     /\ last_modeset' = IF d.original_state.some THEN RestoreModeset(t, d, ok)
                        ELSE lm

\* --------------------------------------------------------- Graphics::load
\* A guard that lets every call through.
GuardRejectsNever(loaded) == FALSE

\* mod.rs:81: what GRAPHICS_LOADED.swap(true) returned decides the rejection.
GuardRejects(loaded) == loaded

\* A terminal guard that can be built while another is in place.
TerminalGuardRejectsNever(created) == FALSE

\* terminal.rs:21: what CREATED.swap(true) returned decides the rejection.
TerminalGuardRejects(created) == created

Log(t, step) == steps' = [steps EXCEPT ![t] = Append(@, step)]

\* load() returns an error before it has a Drm: the terminal guard, if it was
\* built, is dropped (terminal.rs:33-42).
FailEarly(t, err, had_guard) ==
  /\ pc' = [pc EXCEPT ![t] = "idle"]
  /\ gfx' = [gfx EXCEPT ![t] = NoGraphics]
  /\ result' = [result EXCEPT ![t] = err]
  /\ CREATED' = IF had_guard THEN FALSE ELSE CREATED
  /\ UNCHANGED <<kms, flip, fbs, events, last_modeset, exited, render_vars, pacing_vars, input_vars, app_vars>>

\* A failing load() that leaves the device file open and the kernel untouched.
FailLateFileOpen(t, err, lm) ==
  /\ pc' = [pc EXCEPT ![t] = "idle"]
  /\ gfx' = [gfx EXCEPT ![t] = NoGraphics]
  /\ result' = [result EXCEPT ![t] = err]
  /\ CREATED' = FALSE
  /\ UNCHANGED <<kms, flip, fbs, events, last_modeset, exited, render_vars,
                 pacing_vars, input_vars, app_vars>>

\* load() returns an error after Drm::load succeeded: the locals are dropped in
\* reverse order of declaration, the Drm (with its restoring mode-set and the
\* close of the device file) before the terminal guard.
FailLate(t, err, lm) ==
  /\ pc' = [pc EXCEPT ![t] = "idle"]
  /\ gfx' = [gfx EXCEPT ![t] = NoGraphics]
  /\ result' = [result EXCEPT ![t] = err]
  /\ CREATED' = FALSE
  /\ \E ok \in BOOLEAN : DrmDropEffect(t, ok, lm)
  /\ UNCHANGED <<exited, render_vars, pacing_vars, input_vars, app_vars>>

\* mod.rs:81-83
LoadGuard(t) ==
  /\ ~exited /\ pc[t] = "idle"
  /\ GRAPHICS_LOADED' = TRUE
  /\ steps' = [steps EXCEPT ![t] = <<"guard">>]
  /\ IF GuardRejects(GRAPHICS_LOADED)
     THEN /\ result' = [result EXCEPT ![t] = "AlreadyLoaded"]
          /\ UNCHANGED pc
     ELSE /\ pc' = [pc EXCEPT ![t] = "l_terminal"]
          /\ result' = [result EXCEPT ![t] = "none"]
  /\ UNCHANGED <<kms, flip, fbs, events, last_modeset, CREATED, gfx, exited, render_vars, pacing_vars, input_vars, app_vars>>

\* mod.rs:85, terminal.rs:20-30
LoadTerminal(t) ==
  /\ ~exited /\ pc[t] = "l_terminal"
  /\ Log(t, "terminal")
  /\ UNCHANGED GRAPHICS_LOADED
  /\ \/ /\ TerminalGuardRejects(CREATED)
        /\ FailEarly(t, "IO:EALREADY", FALSE)
     \/ /\ ~TerminalGuardRejects(CREATED)
        /\ pc' = [pc EXCEPT ![t] = "idle"]
        /\ result' = [result EXCEPT ![t] = "IO"]
        /\ CREATED' = TRUE
        /\ UNCHANGED <<kms, flip, fbs, events, last_modeset, gfx, exited, render_vars, pacing_vars, input_vars, app_vars>>
     \/ /\ ~TerminalGuardRejects(CREATED)
        /\ pc' = [pc EXCEPT ![t] = "l_drm"]
        /\ gfx' = [gfx EXCEPT ![t].terminal_guard = TRUE]
        /\ CREATED' = TRUE
        /\ UNCHANGED <<kms, flip, fbs, events, last_modeset, result, exited, render_vars, pacing_vars, input_vars, app_vars>>

\* mod.rs:87, drm.rs:43-111. Gpu::open fails; a query fails (IO), as get_crtc
\* on the CRTC to capture does when it is unreadable (drm.rs:63); no output is
\* connected; the output lists no mode and modes()[0] panics (drm.rs:91), which
\* unwinds through load(); no listed encoder has a CRTC; or a Drm is returned.
LoadDrm(t) ==
  /\ ~exited /\ pc[t] = "l_drm"
  /\ Log(t, "drm")
  /\ UNCHANGED GRAPHICS_LOADED
  /\ \/ /\ GpuOpen(kms.nodes) = "NotFound"
        /\ FailEarly(t, "Drm:IO:NotFound", TRUE)
     \/ /\ GpuOpen(kms.nodes) = "Failed"
        /\ FailEarly(t, "Drm:IO:Open", TRUE)
     \/ /\ GpuOpen(kms.nodes) = "Ok"
        /\ FailEarly(t, "Drm:IO", TRUE)
     \/ /\ GpuOpen(kms.nodes) = "Ok"
        /\ FindConnector(kms) = 0
        /\ FailEarly(t, "Drm:NoConnectors", TRUE)
     \/ /\ GpuOpen(kms.nodes) = "Ok"
        /\ FindConnector(kms) # 0
        /\ OriginalCrtc(kms, FindConnector(kms)) \notin kms.crtc_unreadable
        /\ kms.connectors[FindConnector(kms)].modes = <<>>
        /\ FailEarly(t, "panic", TRUE)
     \/ /\ GpuOpen(kms.nodes) = "Ok"
        /\ FindConnector(kms) # 0
        /\ OriginalCrtc(kms, FindConnector(kms)) \notin kms.crtc_unreadable
        /\ kms.connectors[FindConnector(kms)].modes # <<>>
        /\ SelectCrtc(kms, FindConnector(kms)) = None
        /\ FailEarly(t, "Drm:NoCRTC", TRUE)
     \/ /\ GpuOpen(kms.nodes) = "Ok"
        /\ FindConnector(kms) # 0
        /\ OriginalCrtc(kms, FindConnector(kms)) \notin kms.crtc_unreadable
        /\ kms.connectors[FindConnector(kms)].modes # <<>>
        /\ SelectCrtc(kms, FindConnector(kms)) # None
        /\ pc' = [pc EXCEPT ![t] = "l_gbm"]
        /\ gfx' = [gfx EXCEPT ![t].drm = LoadedDrm(kms), ![t].gpu_refs = 1]
        /\ UNCHANGED <<kms, flip, fbs, events, last_modeset, CREATED, result, exited, render_vars, pacing_vars, input_vars, app_vars>>

\* A load() that goes on although Gbm::load failed.
LoadGbmUnchecked(t) ==
  /\ ~exited /\ pc[t] = "l_gbm"
  /\ Log(t, "gbm")
  /\ pc' = [pc EXCEPT ![t] = "l_egl"]
  /\ \E built \in BOOLEAN : gfx' = [gfx EXCEPT ![t].gbm = built]
  /\ UNCHANGED <<kms, flip, fbs, events, last_modeset, GRAPHICS_LOADED, CREATED,
                 result, exited, render_vars, pacing_vars, input_vars, app_vars>>

\* mod.rs:88, gbm.rs:15-30: the allocator device and a first, provisional
\* surface in the format Xrgb8888.
LoadGbm(t) ==
  /\ ~exited /\ pc[t] = "l_gbm"
  /\ Log(t, "gbm")
  /\ UNCHANGED GRAPHICS_LOADED
  /\ \/ FailLate(t, "IO", last_modeset)
     \/ /\ pc' = [pc EXCEPT ![t] = "l_egl"]
        /\ gfx' = [gfx EXCEPT ![t].gbm = TRUE, ![t].surface = "provisional",
                              ![t].gpu_refs = gpu_arc(@)]
        /\ UNCHANGED <<kms, flip, fbs, events, last_modeset, CREATED, result, exited, render_vars, pacing_vars, input_vars, app_vars>>

\* gbm.rs:44-53: Gbm::init_surface puts a new surface, created in the format
\* the EGL config names, in the place of the one the Gbm holds.
InitSurface(g) == [g EXCEPT !.surface = "negotiated"]

\* An Egl::load that creates the window surface first and rebuilds the gbm
\* surface afterwards.
LoadEglWindowFirst(t) ==
  /\ ~exited /\ pc[t] = "l_egl"
  /\ Log(t, "egl")
  /\ UNCHANGED GRAPHICS_LOADED
  /\ \/ FailLate(t, "Egl", last_modeset)
     \/ /\ pc' = [pc EXCEPT ![t] = "l_lock"]
        /\ gfx' = [gfx EXCEPT ![t] = [InitSurface(gfx[t]) EXCEPT
                                        !.egl = TRUE, !.front = TRUE,
                                        !.swap_interval = DefaultSwapInterval,
                                        !.window = gfx[t].surface]]
        /\ UNCHANGED <<kms, flip, fbs, events, last_modeset, CREATED, result, exited,
                       render_vars, pacing_vars, input_vars, app_vars>>

\* mod.rs:89, egl.rs:41-93: the config is chosen and its native visual read
\* (egl.rs:42-55), the gbm surface is rebuilt in that format (egl.rs:57-58),
\* the context and the window surface are created, the latter against the
\* surface the Gbm holds then, and made current (egl.rs:60-64); nothing sets
\* the swap interval; the call ends with the first buffer swap (egl.rs:84). An
\* entry point that get_proc_address cannot resolve, or an extension string
\* that is not UTF-8, makes the unwrap of egl.rs:66 or egl.rs:73 panic; the
\* unwinding drops the locals as an error return does.
LoadEgl(t) ==
  /\ ~exited /\ pc[t] = "l_egl"
  /\ Log(t, "egl")
  /\ UNCHANGED GRAPHICS_LOADED
  /\ \/ FailLate(t, "Egl", last_modeset)
     \/ FailLate(t, "Egl:BadSurface", last_modeset)
     \/ FailLate(t, "panic", last_modeset)
     \/ /\ pc' = [pc EXCEPT ![t] = "l_lock"]
        /\ gfx' = [gfx EXCEPT ![t] = [InitSurface(gfx[t]) EXCEPT
                                        !.egl = TRUE, !.front = TRUE,
                                        !.swap_interval = DefaultSwapInterval,
                                        !.window = InitSurface(gfx[t]).surface]]
        /\ UNCHANGED <<kms, flip, fbs, events, last_modeset, CREATED, result, exited, render_vars, pacing_vars, input_vars, app_vars>>

\* mod.rs:91
LoadLock(t) ==
  /\ ~exited /\ pc[t] = "l_lock"
  /\ Log(t, "acquire")
  /\ UNCHANGED GRAPHICS_LOADED
  /\ \/ FailLate(t, "FrontBuffer", last_modeset)
     \/ /\ gfx[t].front
        /\ \E b \in Buffers \ gfx[t].locked :
             gfx' = [gfx EXCEPT ![t].buffer_object = b, ![t].locked = @ \cup {b},
                                ![t].front = FALSE,
                                ![t].acquired = @ \cup {gfx[t].surface}]
        /\ pc' = [pc EXCEPT ![t] = "l_addfb"]
        /\ UNCHANGED <<kms, flip, fbs, events, last_modeset, CREATED, result, exited, render_vars, pacing_vars, input_vars, app_vars>>

\* mod.rs:92-93
LoadAddFb(t) ==
  /\ ~exited /\ pc[t] = "l_addfb"
  /\ Log(t, "register")
  /\ UNCHANGED GRAPHICS_LOADED
  /\ \/ FailLate(t, "IO", last_modeset)
     \/ /\ Cardinality(fbs[t]) < MaxHandles
        /\ gfx' = [gfx EXCEPT ![t].drm_fb = LowestFree(UsedFbs)]
        /\ fbs' = [fbs EXCEPT ![t] = @ \cup {LowestFree(UsedFbs)}]
        /\ pc' = [pc EXCEPT ![t] = "l_setcrtc"]
        /\ UNCHANGED <<kms, flip, events, last_modeset, CREATED, result, exited, render_vars, pacing_vars, input_vars, app_vars>>

\* The first mode-set (mod.rs:94-100).
FirstModeset(t, ok) ==
  Modeset(t, FALSE, gfx[t].drm.crtc, gfx[t].drm_fb, <<0, 0>>,
          <<gfx[t].drm.connector>>, gfx[t].drm.mode, ok)

\* A first mode-set after which the snapshot is taken again.
LoadSetCrtcRecapture(t) ==
  /\ ~exited /\ pc[t] = "l_setcrtc"
  /\ Log(t, "modeset")
  /\ kms' = KSetCrtc(kms, gfx[t].drm.crtc, gfx[t].drm_fb, <<0, 0>>,
                     <<gfx[t].drm.connector>>, gfx[t].drm.mode)
  /\ flip' = [flip EXCEPT ![gfx[t].drm.crtc] = NoFlip]
  /\ last_modeset' = FirstModeset(t, TRUE)
  /\ pc' = [pc EXCEPT ![t] = "l_framebuffer"]
  /\ gfx' = [gfx EXCEPT ![t].drm.original_state =
                          CaptureOriginalState(kms', gfx[t].drm.connector)]
  /\ UNCHANGED <<fbs, events, GRAPHICS_LOADED, CREATED, result, exited, render_vars,
                 pacing_vars, input_vars, app_vars>>

\* mod.rs:94-100
LoadSetCrtc(t) ==
  /\ ~exited /\ pc[t] = "l_setcrtc"
  /\ Log(t, "modeset")
  /\ UNCHANGED GRAPHICS_LOADED
  /\ \/ FailLate(t, "IO", FirstModeset(t, FALSE))
     \/ /\ kms' = KSetCrtc(kms, gfx[t].drm.crtc, gfx[t].drm_fb, <<0, 0>>,
                           <<gfx[t].drm.connector>>, gfx[t].drm.mode)
        /\ flip' = [flip EXCEPT ![gfx[t].drm.crtc] = NoFlip]
        /\ last_modeset' = FirstModeset(t, TRUE)
        /\ pc' = [pc EXCEPT ![t] = "l_framebuffer"]
        /\ UNCHANGED <<fbs, events, CREATED, gfx, result, exited, render_vars, pacing_vars, input_vars, app_vars>>

\* mod.rs:102-118, framebuffer.rs:40-130
LoadFramebuffer(t) ==
  /\ ~exited /\ pc[t] = "l_framebuffer"
  /\ Log(t, "compositor")
  /\ UNCHANGED GRAPHICS_LOADED
  /\ \/ FailLate(t, "Framebuffer", last_modeset)
     \/ /\ gfx' = [gfx EXCEPT ![t].framebuffer = TRUE]
        /\ pc' = [pc EXCEPT ![t] = "ready"]
        /\ result' = [result EXCEPT ![t] = "Ok"]
        /\ UNCHANGED <<kms, flip, fbs, events, last_modeset, CREATED, exited, render_vars, pacing_vars, input_vars, app_vars>>

\* ------------------------------------------------ Graphics::present_frame
\* An early return that also forgets the current handle and buffer object.
AfterEarlyReturnForgetful(g) ==
  [g EXCEPT !.locked = {}, !.new_bo = None, !.new_fb = None, !.batch = {},
            !.drm_fb = None, !.buffer_object = None]

\* The `?` of mod.rs:147-158: the locals go out of scope, the local buffer
\* object is released to the surface, the fields of Graphics are not touched.
AfterEarlyReturn(g) ==
  [g EXCEPT !.locked = @ \ {g.new_bo}, !.new_bo = None, !.new_fb = None,
            !.batch = {}]

\* The handle present_frame would destroy if it took the new one.
RetiredHandleNew(g) == g.new_fb

\* mod.rs:158: the handle present_frame destroys.
RetiredHandle(g) == g.drm_fb

\* present_frame returns an error once it holds the new buffer object or has
\* registered the new handle: the local buffer object is dropped (released to
\* the surface), the fields of Graphics are as they were.
PresentFail(t, err) ==
  /\ pc' = [pc EXCEPT ![t] = "ready"]
  /\ result' = [result EXCEPT ![t] = err]
  /\ gfx' = [gfx EXCEPT ![t] = AfterEarlyReturn(gfx[t])]

\* mod.rs:143, framebuffer.rs:151-206: render and blit, cannot fail.
PfRender(t) ==
  /\ ~exited /\ pc[t] = "ready"
  /\ steps' = [steps EXCEPT ![t] = <<"render">>]
  /\ result' = [result EXCEPT ![t] = "none"]
  /\ pc' = [pc EXCEPT ![t] = "p_swap"]
  /\ UNCHANGED <<kms, flip, fbs, events, last_modeset, GRAPHICS_LOADED, CREATED,
                 gfx, exited, render_vars, pacing_vars, input_vars, app_vars>>

\* mod.rs:145-147
PfSwap(t) ==
  /\ ~exited /\ pc[t] = "p_swap"
  /\ Log(t, "swap")
  /\ UNCHANGED <<kms, flip, fbs, events, last_modeset, GRAPHICS_LOADED, CREATED, exited, render_vars, pacing_vars, input_vars, app_vars>>
  /\ \/ PresentFail(t, "Egl")
     \/ /\ Buffers \ gfx[t].locked # {}
        /\ gfx' = [gfx EXCEPT ![t].front = TRUE]
        /\ pc' = [pc EXCEPT ![t] = "p_lock"]
        /\ UNCHANGED result

\* mod.rs:149
PfLock(t) ==
  /\ ~exited /\ pc[t] = "p_lock"
  /\ Log(t, "acquire")
  /\ UNCHANGED <<kms, flip, fbs, events, last_modeset, GRAPHICS_LOADED, CREATED, exited, render_vars, pacing_vars, input_vars, app_vars>>
  /\ \/ PresentFail(t, "FrontBuffer")
     \/ /\ gfx[t].front
        /\ \E b \in Buffers \ gfx[t].locked :
             gfx' = [gfx EXCEPT ![t].new_bo = b, ![t].locked = @ \cup {b},
                                ![t].front = FALSE,
                                ![t].acquired = @ \cup {gfx[t].surface}]
        /\ pc' = [pc EXCEPT ![t] = "p_addfb"]
        /\ UNCHANGED result

\* mod.rs:150-151
PfAddFb(t) ==
  /\ ~exited /\ pc[t] = "p_addfb"
  /\ Log(t, "register")
  /\ UNCHANGED <<kms, flip, events, last_modeset, GRAPHICS_LOADED, CREATED, exited, render_vars, pacing_vars, input_vars, app_vars>>
  /\ \/ /\ PresentFail(t, "IO")
        /\ UNCHANGED fbs
     \/ /\ Cardinality(fbs[t]) < MaxHandles
        /\ gfx' = [gfx EXCEPT ![t].new_fb = LowestFree(UsedFbs)]
        /\ fbs' = [fbs EXCEPT ![t] = @ \cup {LowestFree(UsedFbs)}]
        /\ pc' = [pc EXCEPT ![t] = "p_flip"]
        /\ UNCHANGED result

\* mod.rs:153-155: the flip is queued for the next vblank of the CRTC; the
\* kernel refuses it while another is pending, on a CRTC that is off, or when
\* the file has no room for the completion event.
PfFlip(t) ==
  /\ ~exited /\ pc[t] = "p_flip"
  /\ Log(t, "flip")
  /\ UNCHANGED <<kms, fbs, events, last_modeset, GRAPHICS_LOADED, CREATED, exited, render_vars, pacing_vars, input_vars, app_vars>>
  /\ \/ /\ PresentFail(t, "IO")
        /\ UNCHANGED flip
     \/ /\ flip[gfx[t].drm.crtc] = NoFlip
        /\ kms.crtc[gfx[t].drm.crtc].fb # None
        /\ Cardinality(events[t]) < MaxEvents
        /\ flip' = [flip EXCEPT ![gfx[t].drm.crtc] = [fb |-> gfx[t].new_fb, by |-> t]]
        /\ pc' = [pc EXCEPT ![t] = "p_wait"]
        /\ UNCHANGED <<gfx, result>>

\* mod.rs:156: the blocking read returns every event that waits on the file
\* once there is at least one.
PfWait(t) ==
  /\ ~exited /\ pc[t] = "p_wait"
  /\ Log(t, "wait")
  /\ UNCHANGED <<kms, flip, fbs, last_modeset, GRAPHICS_LOADED, CREATED, exited, render_vars, pacing_vars, input_vars, app_vars>>
  /\ \/ /\ PresentFail(t, "IO")
        /\ UNCHANGED events
     \/ /\ events[t] # {}
        /\ gfx' = [gfx EXCEPT ![t].batch = events[t]]
        /\ events' = [events EXCEPT ![t] = {}]
        /\ pc' = [pc EXCEPT ![t] = "p_destroy"]
        /\ UNCHANGED result

\* mod.rs:158
PfDestroy(t) ==
  /\ ~exited /\ pc[t] = "p_destroy"
  /\ Log(t, "destroy")
  /\ UNCHANGED <<events, last_modeset, GRAPHICS_LOADED, CREATED, exited, render_vars, pacing_vars, input_vars, app_vars>>
  /\ \/ /\ PresentFail(t, "IO")
        /\ UNCHANGED <<kms, flip, fbs>>
     \/ /\ fbs' = [fbs EXCEPT ![t] = @ \ {RetiredHandle(gfx[t])}]
        /\ kms' = KRmFbs(kms, {RetiredHandle(gfx[t])})
        /\ flip' = FlipsAfter(flip, KRmFbs(kms, {RetiredHandle(gfx[t])}),
                              {RetiredHandle(gfx[t])})
        /\ pc' = [pc EXCEPT ![t] = "p_adopt"]
        /\ UNCHANGED <<gfx, result>>

\* mod.rs:160-161: the old buffer object is dropped by the assignment.
PfAdopt(t) ==
  /\ ~exited /\ pc[t] = "p_adopt"
  /\ Log(t, "adopt")
  /\ gfx' = [gfx EXCEPT ![t].locked = @ \ {gfx[t].buffer_object},
                        ![t].buffer_object = gfx[t].new_bo,
                        ![t].drm_fb = gfx[t].new_fb,
                        ![t].new_bo = None, ![t].new_fb = None, ![t].batch = {}]
  /\ pc' = [pc EXCEPT ![t] = "p_sleep"]
  /\ UNCHANGED <<kms, flip, fbs, events, last_modeset, GRAPHICS_LOADED, CREATED,
                 result, exited, render_vars, pacing_vars, input_vars, app_vars>>

\* A present_frame without the pacing sleep.
PfSleepSkipped(t) ==
  /\ ~exited /\ pc[t] = "p_sleep"
  /\ pc' = [pc EXCEPT ![t] = "p_timer"]
  /\ UNCHANGED <<kms, flip, fbs, events, last_modeset, GRAPHICS_LOADED, CREATED,
                 gfx, steps, result, exited, render_vars, pacing_vars, input_vars, app_vars>>

\* mod.rs:163
PfSleep(t) ==
  /\ ~exited /\ pc[t] = "p_sleep"
  /\ Log(t, "sleep")
  /\ pc' = [pc EXCEPT ![t] = "p_timer"]
  /\ UNCHANGED <<kms, flip, fbs, events, last_modeset, GRAPHICS_LOADED, CREATED,
                 gfx, result, exited, render_vars, pacing_vars, input_vars, app_vars>>

\* mod.rs:164
PfTimer(t) ==
  /\ ~exited /\ pc[t] = "p_timer"
  /\ Log(t, "timer")
  /\ pc' = [pc EXCEPT ![t] = "p_fps"]
  /\ UNCHANGED <<kms, flip, fbs, events, last_modeset, GRAPHICS_LOADED, CREATED,
                 gfx, result, exited, render_vars, pacing_vars, input_vars, app_vars>>

\* Clock ticks in the second of mod.rs:178.
Second == 2
\* The longest reading of fps_timer.elapsed(), in ticks.
MaxFpsElapsed == 3
\* The most frames counted in one window.
MaxFpsFrames == 3

\* mod.rs:179: ((fps_frames as f64) / elapsed.as_secs_f64()).round() as u32
FpsRound(frames, e) == (2 * frames * Second + e) \div (2 * e)

\* An update that keeps counting over the rollover.
UpdateFpsNoReset(g, e) ==
  IF e >= Second
  THEN [g EXCEPT !.fps = FpsRound(g.fps_frames + 1, e), !.fps_frames = @ + 1,
                 !.fps_elapsed = e]
  ELSE [g EXCEPT !.fps_frames = @ + 1, !.fps_elapsed = e]

\* mod.rs:175-183: update_fps, e being what fps_timer.elapsed() reads.
UpdateFps(g, e) ==
  IF e >= Second
  THEN [g EXCEPT !.fps = FpsRound(g.fps_frames + 1, e), !.fps_frames = 0,
                 !.fps_elapsed = e]
  ELSE [g EXCEPT !.fps_frames = @ + 1, !.fps_elapsed = e]

\* mod.rs:165-167. The reading e is not below the one before in the same
\* window, and the window ends before it holds more than MaxFpsFrames frames.
PfFps(t, e) ==
  /\ ~exited /\ pc[t] = "p_fps"
  /\ e >= Second \/ gfx[t].fps_elapsed >= Second \/ e >= gfx[t].fps_elapsed
  /\ e >= Second \/ gfx[t].fps_frames + 1 < MaxFpsFrames
  /\ Log(t, "fps")
  /\ gfx' = [gfx EXCEPT ![t] = UpdateFps(gfx[t], e)]
  /\ pc' = [pc EXCEPT ![t] = "ready"]
  /\ result' = [result EXCEPT ![t] = "Ok"]
  /\ UNCHANGED <<kms, flip, fbs, events, last_modeset, GRAPHICS_LOADED, CREATED,
                 exited, render_vars, pacing_vars, input_vars, app_vars>>

\* ------------------------------------------------------------ the device
\* The vertical blank of CRTC c: a pending flip takes effect and its completion
\* event is queued on the file that asked for it.
Vblank(c) ==
  /\ ~exited /\ flip[c] # NoFlip
  /\ kms' = [kms EXCEPT !.crtc[c].fb = flip[c].fb]
  /\ events' = [events EXCEPT ![flip[c].by] = @ \cup {FlipEvent(flip[c].fb)}]
  /\ flip' = [flip EXCEPT ![c] = NoFlip]
  /\ UNCHANGED <<fbs, last_modeset, GRAPHICS_LOADED, CREATED, pc, gfx, steps,
                 result, exited, render_vars, pacing_vars, input_vars, app_vars>>

\* An event that is not a flip completion arrives on caller t's open file.
DeliverOther(t) ==
  /\ ~exited /\ gfx[t].drm.open
  /\ OtherEvent \notin events[t]
  /\ Cardinality(events[t]) < MaxEvents
  /\ events' = [events EXCEPT ![t] = @ \cup {OtherEvent}]
  /\ UNCHANGED <<kms, flip, fbs, last_modeset, GRAPHICS_LOADED, CREATED, pc, gfx,
                 steps, result, exited, render_vars, pacing_vars, input_vars, app_vars>>

\* ------------------------------------------------------- drop of Graphics
\* A drop that gives up when the handle cannot be destroyed.
DropDestroyOrAbort(t) ==
  /\ ~exited /\ pc[t] = "ready"
  /\ steps' = [steps EXCEPT ![t] = <<"destroy_current">>]
  /\ UNCHANGED <<events, last_modeset, GRAPHICS_LOADED, CREATED, gfx, exited,
                 render_vars, pacing_vars, input_vars, app_vars>>
  /\ \/ /\ result' = [result EXCEPT ![t] = "IO"]
        /\ UNCHANGED <<kms, flip, fbs, pc>>
     \/ /\ result' = [result EXCEPT ![t] = "none"]
        /\ pc' = [pc EXCEPT ![t] = "d_flag"]
        /\ fbs' = [fbs EXCEPT ![t] = @ \ {gfx[t].drm_fb}]
        /\ kms' = KRmFbs(kms, {gfx[t].drm_fb})
        /\ flip' = FlipsAfter(flip, KRmFbs(kms, {gfx[t].drm_fb}), {gfx[t].drm_fb})

\* mod.rs:188-190: the body of Drop::drop runs before any field is dropped; a
\* failure to destroy the handle is logged.
DropDestroy(t) ==
  /\ ~exited /\ pc[t] = "ready"
  /\ steps' = [steps EXCEPT ![t] = <<"destroy_current">>]
  /\ result' = [result EXCEPT ![t] = "none"]
  /\ pc' = [pc EXCEPT ![t] = "d_flag"]
  /\ UNCHANGED <<events, last_modeset, GRAPHICS_LOADED, CREATED, gfx, exited, render_vars, pacing_vars, input_vars, app_vars>>
  /\ \/ UNCHANGED <<kms, flip, fbs>>
     \/ /\ fbs' = [fbs EXCEPT ![t] = @ \ {gfx[t].drm_fb}]
        /\ kms' = KRmFbs(kms, {gfx[t].drm_fb})
        /\ flip' = FlipsAfter(flip, KRmFbs(kms, {gfx[t].drm_fb}), {gfx[t].drm_fb})

\* mod.rs:191
DropFlag(t) ==
  /\ ~exited /\ pc[t] = "d_flag"
  /\ Log(t, "clear_guard")
  /\ GRAPHICS_LOADED' = FALSE
  /\ pc' = [pc EXCEPT ![t] = "d_framebuffer"]
  /\ UNCHANGED <<kms, flip, fbs, events, last_modeset, CREATED, gfx, result, exited, render_vars, pacing_vars, input_vars, app_vars>>

\* The fields are dropped in the order of their declaration (mod.rs:60-76).
\* framebuffer: the Compositor's GPU programs are deleted (shader.rs:186-192).
DropFramebuffer(t) ==
  /\ ~exited /\ pc[t] = "d_framebuffer"
  /\ Log(t, "release_compositor")
  /\ gfx' = [gfx EXCEPT ![t].framebuffer = FALSE]
  /\ pc' = [pc EXCEPT ![t] = "d_buffer_object"]
  /\ UNCHANGED <<kms, flip, fbs, events, last_modeset, GRAPHICS_LOADED, CREATED,
                 result, exited, render_vars, pacing_vars, input_vars, app_vars>>

\* buffer_object (mod.rs:69): released to the surface.
DropBufferObject(t) ==
  /\ ~exited /\ pc[t] = "d_buffer_object"
  /\ Log(t, "release_buffer_object")
  /\ gfx' = [gfx EXCEPT ![t].locked = @ \ {gfx[t].buffer_object},
                        ![t].buffer_object = None]
  /\ pc' = [pc EXCEPT ![t] = "d_egl"]
  /\ UNCHANGED <<kms, flip, fbs, events, last_modeset, GRAPHICS_LOADED, CREATED,
                 result, exited, render_vars, pacing_vars, input_vars, app_vars>>

\* egl (mod.rs:71): Egl has no Drop (egl.rs:8-14), its context and surface are
\* plain handles and nothing is released.
DropEgl(t) ==
  /\ ~exited /\ pc[t] = "d_egl"
  /\ Log(t, "drop_egl")
  /\ gfx' = [gfx EXCEPT ![t].egl = FALSE, ![t].swap_interval = NoSurface,
                        ![t].window = "none"]
  /\ pc' = [pc EXCEPT ![t] = "d_gbm"]
  /\ UNCHANGED <<kms, flip, fbs, events, last_modeset, GRAPHICS_LOADED, CREATED,
                 result, exited, render_vars, pacing_vars, input_vars, app_vars>>

\* gbm (mod.rs:72): the surface and the allocator device are destroyed, and
\* with the device its reference to the device file goes.
DropGbm(t) ==
  /\ ~exited /\ pc[t] = "d_gbm"
  /\ Log(t, "drop_gbm")
  /\ gfx' = [gfx EXCEPT ![t].gbm = FALSE, ![t].locked = {}, ![t].front = FALSE,
                        ![t].surface = "none", ![t].gpu_refs = @ - 1]
  /\ pc' = [pc EXCEPT ![t] = "d_drm"]
  /\ UNCHANGED <<kms, flip, fbs, events, last_modeset, GRAPHICS_LOADED, CREATED,
                 result, exited, render_vars, pacing_vars, input_vars, app_vars>>

\* drm (mod.rs:73, drm.rs:141-153): the restoring mode-set, its result ignored,
\* then the last reference to the device file goes and the file is closed.
DropDrm(t) ==
  /\ ~exited /\ pc[t] = "d_drm"
  /\ Log(t, IF gfx[t].drm.original_state.some THEN "restore" ELSE "drop_drm")
  /\ \E ok \in BOOLEAN : DrmDropEffect(t, ok, last_modeset)
  /\ gfx' = [gfx EXCEPT ![t].drm.open = FALSE, ![t].gpu_refs = @ - 1]
  /\ pc' = [pc EXCEPT ![t] = "d_terminal"]
  /\ UNCHANGED <<GRAPHICS_LOADED, CREATED, result, exited, render_vars, pacing_vars, input_vars, app_vars>>

\* A terminal guard whose drop leaves CREATED set.
DropTerminalKeepsCreated(t) ==
  /\ ~exited /\ pc[t] = "d_terminal"
  /\ Log(t, "drop_terminal")
  /\ gfx' = [gfx EXCEPT ![t] = NoGraphics]
  /\ pc' = [pc EXCEPT ![t] = "idle"]
  /\ result' = [result EXCEPT ![t] = "dropped"]
  /\ UNCHANGED <<kms, flip, fbs, events, last_modeset, GRAPHICS_LOADED, CREATED, exited,
                 render_vars, pacing_vars, input_vars, app_vars>>

\* _terminal_guard (mod.rs:75, terminal.rs:33-42)
DropTerminal(t) ==
  /\ ~exited /\ pc[t] = "d_terminal"
  /\ Log(t, "drop_terminal")
  /\ CREATED' = FALSE
  /\ gfx' = [gfx EXCEPT ![t] = NoGraphics]
  /\ pc' = [pc EXCEPT ![t] = "idle"]
  /\ result' = [result EXCEPT ![t] = "dropped"]
  /\ UNCHANGED <<kms, flip, fbs, events, last_modeset, GRAPHICS_LOADED, exited, render_vars, pacing_vars, input_vars, app_vars>>

\* ------------------------------------------------------------------ Input
\* Two of the ten buttons of input/mod.rs:19-30.
Buttons == {"A", "Start"}

\* input/mod.rs:68-79: Input::default() starts with no button pressed.
InputDefault ==
  /\ current_state = [b \in Buttons |-> FALSE]
  /\ previous_state = [b \in Buttons |-> FALSE]

\* input/mod.rs:147-149
is_pressed(b) == current_state[b]

\* input/mod.rs:152-156
just_pressed(b) == current_state[b] /\ ~previous_state[b]

\* input/mod.rs:159-163
just_released(b) == ~current_state[b] /\ previous_state[b]

\* An update that keeps the state before the last one it remembered.
InputUpdateKeepsPrevious(t, keys, esc) ==
  /\ ~exited /\ pc[t] = "ready"
  /\ current_state' = [b \in Buttons |-> b \in keys]
  /\ exited' = esc
  /\ UNCHANGED <<kms, flip, fbs, events, last_modeset, GRAPHICS_LOADED, CREATED,
                 pc, gfx, steps, result, render_vars, pacing_vars, previous_state,
                 app_vars>>

\* Input::update in the game loop (game/src/main.rs:16, input/mod.rs:132-144):
\* the state of the latest update becomes the previous one, the current one is
\* cleared and every device ors the keys it holds down into it
\* (input/mod.rs:189-216); keys is what the devices hold down together. A poll
\* that sees the escape key ends the process at once through
\* std::process::exit (input/mod.rs:195-197), which runs no destructor.
InputUpdate(t, keys, esc) ==
  /\ ~exited /\ pc[t] = "ready"
  /\ previous_state' = current_state
  /\ current_state' = [b \in Buttons |-> b \in keys]
  /\ exited' = esc
  /\ UNCHANGED <<kms, flip, fbs, events, last_modeset, GRAPHICS_LOADED, CREATED,
                 pc, gfx, steps, result, render_vars, pacing_vars, app_vars>>

\* main returns (game/src/main.rs:27) after every caller has let go of what
\* it held.
MainReturn ==
  /\ ~exited /\ \A t \in Callers : pc[t] = "idle"
  /\ exited' = TRUE
  /\ UNCHANGED <<kms, flip, fbs, events, last_modeset, GRAPHICS_LOADED, CREATED,
                 pc, gfx, steps, result, render_vars, pacing_vars, input_vars, app_vars>>

\* ------------------------------------------------------------------ Frame
\* Draw commands a frame may hold at most.
MaxCommands == 2
\* Characters a text may hold at most.
MaxTextLen == 2
\* Glyphs a font file may hold at most.
MaxGlyphs == 2
\* The widest glyph cell of a font file, in pixels.
MaxGlyphWidth == 2

\* The code point of ' ' (font.rs:100).
Space == 32

\* The characters of the texts: code points 0 and 1, and the space.
Chars == {0, 1, Space}

NoCharMap == [some |-> FALSE, map |-> <<>>]

NoFont == [glyph_size |-> <<0, 0>>, glyphs |-> <<>>, char_map |-> NoCharMap]

\* Font::load (font.rs:37-119): widths[i] is what blit_glyph_to_atlas returned
\* for glyph i (the largest column with a set bit, 0 for a blank glyph), the
\* stored advance is one more (font.rs:84-87), and the glyph the space maps to
\* gets half the cell width instead, rounded down (font.rs:99-107). Glyph
\* indices count from 0 as in the source; the sequence glyphs counts from 1.
LoadFont(width, height, widths, char_map) ==
  LET space_index == IF char_map.some /\ Space \in DOMAIN char_map.map
                     THEN char_map.map[Space] ELSE Space
  IN [glyph_size |-> <<width, height>>,
      glyphs |-> [i \in DOMAIN widths |->
                    [advance |-> IF i = space_index + 1 THEN width \div 2
                                 ELSE widths[i] + 1]],
      char_map |-> char_map]

\* parse_unicode_table (font.rs:169-194): line i of the table names the
\* character of glyph i, so no two characters share a glyph.
CharMaps(n) ==
  {NoCharMap} \cup
  UNION {{[some |-> TRUE, map |-> f] :
            f \in {g \in [S -> 0..(n - 1)] :
                     \A a, b \in S : a # b => g[a] # g[b]}} : S \in SUBSET Chars}

\* The fonts Font::load can return for cells of up to MaxGlyphWidth pixels and
\* up to MaxGlyphs glyphs.
LoadedFonts ==
  UNION {UNION {{LoadFont(w, 2, ws, cm) : ws \in [1..n -> 0..(w - 1)], cm \in CharMaps(n)} :
                  n \in 0..MaxGlyphs} : w \in 1..MaxGlyphWidth}

\* Font::glyph (font.rs:204-213): through the character map if the font has
\* one, else by code point; None when the map or the glyph list has no entry.
Glyph(font, c) ==
  LET index == IF font.char_map.some
               THEN IF c \in DOMAIN font.char_map.map THEN font.char_map.map[c] ELSE -1
               ELSE c
  IN IF index >= 0 /\ index < Len(font.glyphs)
     THEN [some |-> TRUE, advance |-> font.glyphs[index + 1].advance]
     ELSE [some |-> FALSE, advance |-> 0]

\* Font::default_glyph (font.rs:215-217) indexes glyph 0 and panics without one.
DefaultGlyph(font) == [some |-> TRUE, advance |-> font.glyphs[1].advance]

\* framebuffer.rs:235: font.glyph(char).unwrap_or(font.default_glyph())
GlyphOrDefault(font, c) ==
  IF Glyph(font, c).some THEN Glyph(font, c) ELSE DefaultGlyph(font)

\* Frame::default (frame.rs:70-77)
FrameDefault == [draw_commands |-> <<>>, clear_color |-> "black"]

\* DrawCommand (frame.rs:79-101); the fields a variant does not have are blank.
\* For a sprite, size is the size of its texture.
SpriteCommand(size, position) ==
  [kind |-> "Sprite", position |-> position, end |-> <<0, 0>>, size |-> size,
   color |-> "texture", filled |-> FALSE, font |-> NoFont, text |-> <<>>]
TextCommand(font, text, position) ==
  [kind |-> "Text", position |-> position, end |-> <<0, 0>>, size |-> <<0, 0>>,
   color |-> "texture", filled |-> FALSE, font |-> font, text |-> text]
LineCommand(start, end, color) ==
  [kind |-> "Line", position |-> start, end |-> end, size |-> <<0, 0>>,
   color |-> color, filled |-> FALSE, font |-> NoFont, text |-> <<>>]
RectCommand(position, size, color, filled) ==
  [kind |-> "Rect", position |-> position, end |-> <<0, 0>>, size |-> size,
   color |-> color, filled |-> filled, font |-> NoFont, text |-> <<>>]

\* A frame that takes a new command in front of the others.
PushFront(f, command) == [f EXCEPT !.draw_commands = <<command>> \o @]

\* Vec::push (frame.rs:12, 19, 27, 36, 45, 58)
Push(f, command) == [f EXCEPT !.draw_commands = Append(@, command)]

\* The caller holds a frame it may still add to.
Building == rpc = "build" /\ Len(frame.draw_commands) < MaxCommands

\* A call on the Frame: pure data, no GPU call (frame.rs:11-59).
FrameBecomes(f) ==
  /\ frame' = f
  /\ UNCHANGED <<display_vars, pacing_vars, input_vars, app_vars, target, canvas, screen, calls, rpc,
                 command_index, char_index, advance>>

\* Frame::draw_sprite (frame.rs:11-16)
FrameDrawSprite ==
  Building /\ FrameBecomes(Push(frame, SpriteCommand(<<1, 1>>, <<2, 2>>)))

\* Frame::draw_text (frame.rs:18-24), with a font of two glyphs or a font
\* file without glyphs.
FrameDrawText ==
  /\ Building
  /\ \E font \in {LoadFont(2, 2, <<1, 0>>, NoCharMap), LoadFont(2, 2, <<>>, NoCharMap)},
        text \in {<<0>>, <<1, Space>>} :
       FrameBecomes(Push(frame, TextCommand(font, text, <<0, 3>>)))

\* Frame::draw_rect (frame.rs:26-33)
FrameDrawRect ==
  /\ Building
  /\ \E position \in {<<0, 0>>, <<2, 2>>}, color \in {"red", "blue"} :
       FrameBecomes(Push(frame, RectCommand(position, <<2, 2>>, color, TRUE)))

\* Frame::draw_rect_outline (frame.rs:35-42)
FrameDrawRectOutline ==
  Building /\ FrameBecomes(Push(frame, RectCommand(<<0, 0>>, <<2, 2>>, "red", FALSE)))

\* Frame::draw_line (frame.rs:44-51)
FrameDrawLine ==
  Building /\ FrameBecomes(Push(frame, LineCommand(<<0, 0>>, <<2, 0>>, "blue")))

\* A set_clear_color that also empties the command list.
FrameSetClearColorResets ==
  /\ rpc = "build"
  /\ \E color \in {"black", "red"} :
       FrameBecomes([draw_commands |-> <<>>, clear_color |-> color])

\* Frame::set_clear_color (frame.rs:53-55)
FrameSetClearColor ==
  /\ rpc = "build"
  /\ \E color \in {"black", "red"} : FrameBecomes([frame EXCEPT !.clear_color = color])

\* ----------------------------------------- Framebuffer::present_frame
\* A filled quad at position with the extent size covers the pixel of the
\* off-screen texture the model follows, the one at <<1, 1>>.
Covers(position, size) ==
  LET pixel == <<1, 1>>
  IN /\ position[1] <= pixel[1] /\ pixel[1] < position[1] + size[1]
     /\ position[2] <= pixel[2] /\ pixel[2] < position[2] + size[2]

\* gl.clear (framebuffer.rs:156-157) on the bound framebuffer.
ClearCall(bound, color) ==
  [op |-> "clear", target |-> bound, program |-> "none", prim |-> "none",
   position |-> <<0, 0>>, size |-> <<0, 0>>, color |-> color, cmd |-> 0]

\* Quad::draw and Line::draw with the program and uniforms bound, issued for
\* the command at position cmd of the frame (0 for the blit).
DrawCall(bound, program, prim, position, size, color, cmd) ==
  [op |-> "draw", target |-> bound, program |-> program, prim |-> prim,
   position |-> position, size |-> size, color |-> color, cmd |-> cmd]

\* The command the loop of framebuffer.rs:160 is at.
Command == frame.draw_commands[command_index]

InLoop(kind) ==
  /\ rpc = "commands" /\ command_index <= Len(frame.draw_commands)
  /\ Command.kind = kind

\* One draw command is done: the loop moves to the next.
Emit(drawn) ==
  /\ calls' = calls \o drawn
  /\ command_index' = command_index + 1
  /\ UNCHANGED <<display_vars, pacing_vars, input_vars, app_vars, frame, target, screen, rpc,
                 char_index, advance>>

\* framebuffer.rs:152-158: bind the off-screen target, clear it to the frame's
\* clear colour.
RenderBegin ==
  /\ rpc = "build"
  /\ target' = "offscreen"
  /\ calls' = Append(calls, ClearCall("offscreen", frame.clear_color))
  /\ canvas' = frame.clear_color
  /\ rpc' = "commands"
  /\ command_index' = 1
  /\ UNCHANGED <<display_vars, pacing_vars, input_vars, app_vars, frame, screen, char_index, advance>>

\* framebuffer.rs:162-164, draw_sprite (208-223)
RenderSprite ==
  /\ InLoop("Sprite")
  /\ Emit(<<DrawCall(target, "sprite", "quad", Command.position, Command.size,
                     "texture", command_index)>>)
  /\ UNCHANGED canvas

\* framebuffer.rs:172-179, draw_line (253-270): the unit segment stretched by
\* end - start.
RenderLine ==
  /\ InLoop("Line")
  /\ Emit(<<DrawCall(target, "shape", "line", Command.position,
                     <<Command.end[1] - Command.position[1],
                       Command.end[2] - Command.position[2]>>,
                     Command.color, command_index)>>)
  /\ UNCHANGED canvas

\* framebuffer.rs:188-190, draw_rect (272-311): top, bottom, left, right.
RenderRect ==
  /\ InLoop("Rect") /\ ~Command.filled
  /\ LET x == Command.position[1]
         y == Command.position[2]
         w == Command.size[1]
         h == Command.size[2]
         side(p, s) == DrawCall(target, "shape", "line", p, s, Command.color,
                                command_index)
     IN Emit(<< side(<<x, y>>, <<w, 0>>), side(<<x, y + h>>, <<w, 0>>),
                side(<<x, y>>, <<0, h>>), side(<<x + w, y>>, <<0, h>>) >>)
  /\ UNCHANGED canvas

\* framebuffer.rs:186-187, draw_rect_filled (313-326): the unit quad scaled to
\* the rect; what it covers takes its colour.
RenderRectFilled ==
  /\ InLoop("Rect") /\ Command.filled
  /\ Emit(<<DrawCall(target, "shape", "quad", Command.position, Command.size,
                     Command.color, command_index)>>)
  /\ canvas' = IF target = "offscreen" /\ Covers(Command.position, Command.size)
               THEN Command.color ELSE canvas

\* framebuffer.rs:165-171, draw_text (225-233): program, quad, glyph size and
\* atlas are bound once, the cursor starts at 0.
RenderTextBegin ==
  /\ InLoop("Text")
  /\ rpc' = "text"
  /\ char_index' = 1
  /\ advance' = 0
  /\ UNCHANGED <<display_vars, pacing_vars, input_vars, app_vars, frame, target, canvas, screen, calls,
                 command_index>>

\* framebuffer.rs:234-250: one turn of the loop over text.chars(). The default
\* glyph is looked up for every character, wanted or not, since it is the
\* argument of unwrap_or: a font without glyphs panics here.
RenderGlyph ==
  /\ rpc = "text" /\ char_index <= Len(Command.text)
  /\ \/ /\ Len(Command.font.glyphs) = 0
        /\ rpc' = "panicked"
        /\ UNCHANGED <<calls, char_index, advance>>
     \/ /\ Len(Command.font.glyphs) > 0
        /\ calls' = Append(calls,
                      DrawCall(target, "sprite", "quad",
                               <<Command.position[1] + advance, Command.position[2]>>,
                               Command.font.glyph_size, "texture", command_index))
        /\ advance' = advance
                        + GlyphOrDefault(Command.font, Command.text[char_index]).advance
        /\ char_index' = char_index + 1
        /\ UNCHANGED rpc
  /\ UNCHANGED <<display_vars, pacing_vars, input_vars, app_vars, frame, target, canvas, screen,
                 command_index>>

\* framebuffer.rs:250-251: the text is through, draw_text returns.
RenderTextEnd ==
  /\ rpc = "text" /\ char_index > Len(Command.text)
  /\ rpc' = "commands"
  /\ command_index' = command_index + 1
  /\ UNCHANGED <<display_vars, pacing_vars, input_vars, app_vars, frame, target, canvas, screen, calls,
                 char_index, advance>>

\* framebuffer.rs:195-205: bind the screen, draw the off-screen texture on it
\* with the screen program; present_frame returns.
RenderBlit ==
  /\ rpc = "commands" /\ command_index > Len(frame.draw_commands)
  /\ target' = "screen"
  /\ calls' = Append(calls, DrawCall("screen", "screen", "quad", <<0, 0>>, <<0, 0>>,
                                     "offscreen", 0))
  /\ screen' = canvas
  /\ rpc' = "returned"
  /\ UNCHANGED <<display_vars, pacing_vars, input_vars, app_vars, frame, canvas, command_index, char_index,
                 advance>>

\* The caller drops the frame it presented and starts the next one
\* (game/src/main.rs:14-25); the calls and the locals of the present_frame
\* that returned are forgotten.
FrameNew ==
  /\ rpc = "returned"
  /\ frame' = FrameDefault
  /\ rpc' = "build"
  /\ calls' = <<>>
  /\ command_index' = 0
  /\ char_index' = 0
  /\ advance' = 0
  /\ UNCHANGED <<display_vars, pacing_vars, input_vars, app_vars, target, canvas, screen>>

\* No frame in the making, nothing rendered yet: the texture is empty
\* (framebuffer.rs:46).
RenderIdle ==
  /\ frame = FrameDefault
  /\ target = "screen"
  /\ canvas = "black"
  /\ screen = "black"
  /\ calls = <<>>
  /\ rpc = "build"
  /\ command_index = 0
  /\ char_index = 0
  /\ advance = 0

\* ------------------------------------------------- the pacing sleep
\* The longest time a frame may have taken, in microseconds.
MaxElapsed == 20000

\* mod.rs:141, in microseconds.
FRAME_DURATION == 16667

\* A subtraction that does not saturate.
PlainSub(a, b) == a - b

\* Duration::saturating_sub
SaturatingSub(a, b) == IF a > b THEN a - b ELSE 0

\* mod.rs:163: std::thread::sleep(FRAME_DURATION.saturating_sub(elapsed))
PacingSleep ==
  /\ ~paced
  /\ slept' = SaturatingSub(FRAME_DURATION, elapsed)
  /\ paced' = TRUE
  /\ UNCHANGED <<display_vars, render_vars, input_vars, app_vars, elapsed>>

PacingIdle == elapsed = 0 /\ slept = 0 /\ paced = FALSE

\* ------------------------------------------ the launcher's GraphicsContext
\* The calls of launcher/src/graphics.rs:43-56 after the check, in order.
GcSteps == <<"g_drm", "g_gbm", "g_egl", "g_lock", "g_addfb", "g_setcrtc">>

LauncherIdle ==
  /\ LOADED = FALSE
  /\ lpc = [t \in Callers |-> "idle"]
  /\ lresult = [t \in Callers |-> "none"]
  /\ master = "nobody"

\* --------------------------------------------------------------------- Ui
\* ui/mod.rs: the focus state of UiInner, the buttons it reads and the number
\* of draw commands it holds. The layout cursor, the style and the columns
\* decide where a command is drawn, never which widget has the focus, and are
\* left out. Every method of Ui locks the mutex for its whole body.

\* Focusable widgets one frame may emit.
MaxWidgets == 3
\* Draw commands the Ui may hold.
MaxUiCommands == 8

Min(a, b) == IF a < b THEN a ELSE b

\* ui/mod.rs:183-197 and 580-587
UiNew ==
  /\ ui = [just_pressed |-> {}, focus_index |-> 0,
           last_widget_count |-> 0, frame_focus_index |-> 0, widget_index |-> 0,
           draw_commands |-> 0]
  /\ ui_log = [op |-> "new", in_frame |-> FALSE, emitted |-> 0, activations |-> 0,
               returned |-> FALSE]

AppIdle == LauncherIdle /\ UiNew

UiUnchanged == UNCHANGED <<display_vars, render_vars, pacing_vars, input_vars,
                           launcher_vars>>

\* ui/mod.rs:36-38 and 558-569: of the copy the focus reads just_pressed of
\* Up, Down and A.
UiUpdateInput(just) ==
  /\ ui' = [ui EXCEPT !.just_pressed = just]
  /\ ui_log' = [ui_log EXCEPT !.op = "update_input"]
  /\ UiUnchanged

\* ui/mod.rs:43-51
BeginFocus(u) ==
  LET up == IF "Up" \in u.just_pressed THEN SaturatingSub(u.focus_index, 1)
            ELSE u.focus_index
      down == IF "Down" \in u.just_pressed
              THEN Min(up + 1, u.last_widget_count - 1) ELSE up
  IN  IF u.last_widget_count > 0 THEN down ELSE u.focus_index

\* ui/mod.rs:41-57
UiBeginFrame ==
  /\ ui' = [ui EXCEPT !.frame_focus_index = BeginFocus(ui), !.widget_index = 0,
                      !.draw_commands = 0]
  /\ ui_log' = [ui_log EXCEPT !.op = "begin_frame", !.in_frame = TRUE,
                              !.emitted = 0, !.activations = 0]
  /\ UiUnchanged

\* ui/mod.rs:59-64
UiClear ==
  /\ ui' = [ui EXCEPT !.draw_commands = 0, !.widget_index = 0]
  /\ ui_log' = [ui_log EXCEPT !.op = "clear", !.emitted = 0]
  /\ UiUnchanged

\* ui/mod.rs:208, 238, 280, 333
IsFocused(u) == u.widget_index = u.frame_focus_index

Activating == {"button", "checkbox", "radio"}

\* One widget call: it pushes `commands` draw commands, takes the next widget
\* index if `counted`, and returns `returned`.
UiWidget(op, commands, counted, returned) ==
  /\ ui.draw_commands + commands <= MaxUiCommands
  /\ counted => ui.widget_index < MaxWidgets
  /\ ui' = [ui EXCEPT !.draw_commands = @ + commands,
                      !.widget_index = IF counted THEN @ + 1 ELSE @]
  /\ ui_log' = [ui_log EXCEPT
                  !.op = op,
                  !.emitted = IF counted THEN @ + 1 ELSE @,
                  !.activations = IF returned /\ op \in Activating
                                  THEN Min(@ + 1, 2) ELSE @,
                  !.returned = returned]
  /\ UiUnchanged

Bit(b) == IF b THEN 1 ELSE 0

\* ui/mod.rs:201-205
UiLabel == UiWidget("label", 1, FALSE, FALSE)

\* ui/mod.rs:207-235
UiButton ==
  UiWidget("button", 3 + Bit(IsFocused(ui)), TRUE,
           IsFocused(ui) /\ "A" \in ui.just_pressed)

\* ui/mod.rs:237-277: `value` is drawn as it is before the call toggles it.
UiCheckbox(value) ==
  UiWidget("checkbox", 2 + Bit(value) + Bit(IsFocused(ui)), TRUE,
           IsFocused(ui) /\ "A" \in ui.just_pressed)

\* ui/mod.rs:279-325
UiRadio(selected, index) ==
  UiWidget("radio", 2 + Bit(selected = index) + Bit(IsFocused(ui)), TRUE,
           IsFocused(ui) /\ "A" \in ui.just_pressed /\ selected # index)

\* ui/mod.rs:327-403: a value or a bound that to_f32 cannot convert ends the
\* call after the label and the track, before the index is taken; `moved`
\* says Left or Right is held and the step changes the value.
UiSlider(convertible, fill, moved) ==
  IF convertible
  THEN UiWidget("slider", 3 + Bit(fill) + Bit(IsFocused(ui)), TRUE,
                IsFocused(ui) /\ moved)
  ELSE UiWidget("slider", 2, FALSE, FALSE)

\* ui/mod.rs:405-432
UiProgressBar(convertible, fill) ==
  UiWidget("progress_bar", IF convertible THEN 2 + Bit(fill) ELSE 0, FALSE, FALSE)

\* ui/mod.rs:434-438
UiSeparator == UiWidget("separator", 1, FALSE, FALSE)

\* ui/mod.rs:440-443
UiSpacer == UiWidget("spacer", 0, FALSE, FALSE)

\* ui/mod.rs:151-156, without the clamp to the widgets of the frame.
RenderFocusUnclamped(u) == IF u.widget_index > 0 THEN u.frame_focus_index ELSE 0

\* ui/mod.rs:151-156
RenderFocus(u) ==
  IF u.widget_index > 0 THEN Min(u.frame_focus_index, u.widget_index - 1) ELSE 0

\* ui/mod.rs:149-159: the commands are copied into the caller's frame and
\* kept.
UiRender ==
  /\ ui' = [ui EXCEPT !.focus_index = RenderFocus(ui),
                      !.last_widget_count = ui.widget_index]
  /\ ui_log' = [ui_log EXCEPT !.op = "render", !.in_frame = FALSE]
  /\ UiUnchanged

\* A screen drives the Ui (launcher/src/screen/main_menu.rs:29-56); the Ui's
\* methods are public and may be called in any order.
NextUi ==
  \/ \E just \in SUBSET {"Up", "Down", "A"} : UiUpdateInput(just)
  \/ UiBeginFrame
  \/ UiClear
  \/ UiLabel
  \/ UiButton
  \/ \E value \in BOOLEAN : UiCheckbox(value)
  \/ \E selected, index \in 0..1 : UiRadio(selected, index)
  \/ \E convertible, fill, moved \in BOOLEAN : UiSlider(convertible, fill, moved)
  \/ \E convertible, fill \in BOOLEAN : UiProgressBar(convertible, fill)
  \/ UiSeparator
  \/ UiSpacer
  \/ UiRender

InitUi == InitDisplay({HwBound}) /\ RenderIdle /\ PacingIdle /\ InputDefault /\ AppIdle

SpecUi == InitUi /\ [][NextUi]_vars

\* launcher/src/graphics.rs:39-41: the flag is read, not set.
GcCheck(t) ==
  /\ lpc[t] = "idle"
  /\ IF LOADED
     THEN lresult' = [lresult EXCEPT ![t] = "AlreadyLoaded"] /\ UNCHANGED lpc
     ELSE lresult' = [lresult EXCEPT ![t] = "none"]
          /\ lpc' = [lpc EXCEPT ![t] = GcSteps[1]]
  /\ UNCHANGED <<LOADED, master, display_vars, render_vars, pacing_vars, input_vars,
               ui_vars>>

\* launcher/src/graphics.rs:43-56: one call of the sequence. Each returns its
\* error through `?`, which drops the locals and closes the device file. The
\* first file opened on a device without a master becomes its master; the
\* kernel takes a mode-set from the master's file only.
GcStep(t) ==
  \E i \in DOMAIN GcSteps :
    /\ lpc[t] = GcSteps[i]
    /\ UNCHANGED <<LOADED, display_vars, render_vars, pacing_vars, input_vars,
               ui_vars>>
    /\ \/ /\ lpc' = [lpc EXCEPT ![t] = "idle"]
          /\ lresult' = [lresult EXCEPT ![t] = "Err"]
          /\ master' = IF master = t THEN "nobody" ELSE master
       \/ /\ GcSteps[i] = "g_setcrtc" => master = t
          /\ lpc' = [lpc EXCEPT ![t] = IF i < Len(GcSteps) THEN GcSteps[i + 1]
                                       ELSE "g_store"]
          /\ master' = IF GcSteps[i] = "g_drm" /\ master = "nobody" THEN t ELSE master
          /\ UNCHANGED lresult

\* launcher/src/graphics.rs:58-66
GcStore(t) ==
  /\ lpc[t] = "g_store"
  /\ LOADED' = TRUE
  /\ lpc' = [lpc EXCEPT ![t] = "loaded"]
  /\ lresult' = [lresult EXCEPT ![t] = "Ok"]
  /\ UNCHANGED <<master, display_vars, render_vars, pacing_vars, input_vars,
               ui_vars>>

\* The GraphicsContext is dropped: its device file is closed; nothing clears
\* the flag.
GcDrop(t) ==
  /\ lpc[t] = "loaded"
  /\ lpc' = [lpc EXCEPT ![t] = "idle"]
  /\ master' = IF master = t THEN "nobody" ELSE master
  /\ UNCHANGED <<LOADED, lresult, display_vars, render_vars, pacing_vars, input_vars,
               ui_vars>>

NextLauncher == \E t \in Callers : GcCheck(t) \/ GcStep(t) \/ GcStore(t) \/ GcDrop(t)

InitLauncher == InitDisplay({HwBound}) /\ RenderIdle /\ PacingIdle /\ InputDefault /\ AppIdle

SpecLauncher == InitLauncher /\ [][NextLauncher]_vars

Load(t) ==
  \/ LoadGuard(t) \/ LoadTerminal(t) \/ LoadDrm(t) \/ LoadGbm(t) \/ LoadEgl(t)
  \/ LoadLock(t) \/ LoadAddFb(t) \/ LoadSetCrtc(t) \/ LoadFramebuffer(t)

PresentFrame(t) ==
  \/ PfRender(t) \/ PfSwap(t) \/ PfLock(t) \/ PfAddFb(t) \/ PfFlip(t) \/ PfWait(t)
  \/ PfDestroy(t) \/ PfAdopt(t) \/ PfSleep(t) \/ PfTimer(t) \/ PfFps(t, Second)

DropGraphics(t) ==
  \/ DropDestroy(t) \/ DropFlag(t) \/ DropFramebuffer(t) \/ DropBufferObject(t)
  \/ DropEgl(t) \/ DropGbm(t) \/ DropDrm(t) \/ DropTerminal(t)

Next ==
  \/ \E t \in Callers : Load(t) \/ PresentFrame(t) \/ DropGraphics(t)
                        \/ (\E esc \in BOOLEAN : InputUpdate(t, {}, esc))
                        \/ DeliverOther(t)
  \/ \E c \in Crtcs : Vblank(c)
  \/ MainReturn

Init == InitDisplay(Hardware) /\ RenderIdle /\ PacingIdle /\ InputDefault /\ AppIdle

Spec == Init /\ [][Next]_vars

\* ------------------------------------------- Drm::load on any small device
\* Outputs a device may have at most.
MaxConnectors == 2
\* Modes an output may list at most.
MaxModes == 3

\* The mode lists of up to MaxModes modes, each flagged preferred or not.
ModeLists ==
  UNION {{[i \in 1..n |-> [id |-> i, preferred |-> f[i]]] : f \in [1..n -> BOOLEAN]} :
           n \in 0..MaxModes}

\* A device with the outputs outs (connected or not, with a mode list), all
\* dark, each reachable through encoders 1 and 2; get_crtc fails on the CRTCs
\* unreadable.
Device(outs, enc_crtc, unreadable) ==
  [connectors |-> [i \in DOMAIN outs |->
                     [handle |-> i, connected |-> outs[i][1], encoders |-> <<1, 2>>,
                      modes |-> outs[i][2]]],
   conn_enc |-> [i \in DOMAIN outs |-> None],
   enc_crtc |-> enc_crtc,
   crtc |-> <<DisabledCrtc, DisabledCrtc>>,
   nodes |-> DevDri, crtc_unreadable |-> unreadable]

\* What an output reports: connected with any mode list, or not connected
\* with no mode or with the one mode it last had.
Outputs ==
  ({TRUE} \X ModeLists) \cup ({FALSE} \X {<<>>, <<[id |-> 1, preferred |-> TRUE]>>})

Devices ==
  {Device(outs, enc_crtc, unreadable) :
     outs \in UNION {[1..n -> Outputs] : n \in 0..MaxConnectors},
     enc_crtc \in {<<1, None>>, <<None, 2>>, <<None, None>>, <<1, 2>>, <<2, 1>>},
     unreadable \in {{}, {1}}}

\* Caller t1 is inside load(), past the guard and the terminal guard
\* (mod.rs:81-85), about to call Drm::load on one of the devices devs.
AtDrmLoad(devs) ==
  /\ kms \in devs
  /\ flip = [c \in Crtcs |-> NoFlip]
  /\ fbs = [t \in Callers |-> {}]
  /\ events = [t \in Callers |-> {}]
  /\ last_modeset = NoModeset
  /\ GRAPHICS_LOADED = TRUE
  /\ CREATED = TRUE
  /\ pc = [t \in Callers |-> IF t = "t1" THEN "l_drm" ELSE "idle"]
  /\ gfx = [t \in Callers |-> IF t = "t1" THEN [NoGraphics EXCEPT !.terminal_guard = TRUE]
                                ELSE NoGraphics]
  /\ steps = [t \in Callers |-> IF t = "t1" THEN <<"guard", "terminal">> ELSE <<>>]
  /\ result = [t \in Callers |-> "none"]
  /\ exited = FALSE
  /\ RenderIdle /\ PacingIdle /\ InputDefault /\ AppIdle

InitDrm == AtDrmLoad(Devices)

NextDrm == \E t \in Callers : LoadDrm(t)

SpecDrm == InitDrm /\ [][NextDrm]_vars

\* ------------------------------------------ Gpu::open on any small /dev/dri
\* Entries the listing of /dev/dri may hold at most.
MaxEntries == 2

\* The listings of up to MaxEntries entries.
Dirs ==
  UNION {[1..n -> [readable : BOOLEAN, char_device : BOOLEAN, card : BOOLEAN,
                   opens : BOOLEAN]] : n \in 0..MaxEntries}

InitOpen == AtDrmLoad({[HwBound EXCEPT !.nodes = d] : d \in Dirs})

SpecOpen == InitOpen /\ [][NextDrm]_vars

\* ------------------------------------------ the frame rate over the frames
\* The game loads the display and presents frames, each of which fails or
\* succeeds, at any pace.
NextFps ==
  \/ \E t \in {"t1"} :
       \/ Load(t)
       \/ PfRender(t) \/ PfSwap(t) \/ PfLock(t) \/ PfAddFb(t) \/ PfFlip(t) \/ PfWait(t)
       \/ PfDestroy(t) \/ PfAdopt(t) \/ PfSleep(t) \/ PfTimer(t)
       \/ \E e \in 0..MaxFpsElapsed : PfFps(t, e)
  \/ \E c \in Crtcs : Vblank(c)

InitFps == InitDisplay({HwBound}) /\ RenderIdle /\ PacingIdle /\ InputDefault /\ AppIdle

SpecFps == InitFps /\ [][NextFps]_vars

\* ------------------------------------------- the buttons over the updates
\* The game loads the display and then polls the buttons once per frame
\* (game/src/main.rs:12-16); the devices hold down any buttons at any update.
NextInput ==
  \E t \in Callers :
    \/ Load(t)
    \/ \E keys \in SUBSET Buttons, esc \in BOOLEAN : InputUpdate(t, keys, esc)

InitInput == InitDisplay({HwBound}) /\ RenderIdle /\ PacingIdle /\ InputDefault /\ AppIdle

SpecInput == InitInput /\ [][NextInput]_vars

\* ------------------------------------ the pacing sleep after any frame cost
\* present_frame reaches its sleep (mod.rs:163) elapsed microseconds after the
\* frame-start timer was restarted.
InitPacing ==
  /\ InitDisplay({HwBound})
  /\ RenderIdle /\ InputDefault /\ AppIdle
  /\ elapsed \in 0..MaxElapsed
  /\ slept = 0
  /\ paced = FALSE

NextPacing == PacingSleep

SpecPacing == InitPacing /\ [][NextPacing]_vars

\* ------------------------------- frames built and presented one after another
InitRender == InitDisplay({HwBound}) /\ RenderIdle /\ PacingIdle /\ InputDefault /\ AppIdle

NextRender ==
  \/ FrameDrawSprite \/ FrameDrawText \/ FrameDrawRect \/ FrameDrawRectOutline
  \/ FrameDrawLine \/ FrameSetClearColor
  \/ RenderBegin \/ RenderSprite \/ RenderLine \/ RenderRect \/ RenderRectFilled
  \/ RenderTextBegin \/ RenderGlyph \/ RenderTextEnd \/ RenderBlit
  \/ FrameNew

SpecRender == InitRender /\ [][NextRender]_vars

\* ------------------------------------ one text command, any font, any text
\* The texts of up to MaxTextLen characters.
Texts == UNION {[1..n -> Chars] : n \in 0..MaxTextLen}

\* The caller has built a frame of one text command and presents it.
InitText ==
  /\ InitDisplay({HwBound})
  /\ PacingIdle /\ InputDefault /\ AppIdle
  /\ \E font \in LoadedFonts, text \in Texts :
       frame = Push(FrameDefault, TextCommand(font, text, <<0, 3>>))
  /\ target = "screen"
  /\ canvas = "black"
  /\ screen = "black"
  /\ calls = <<>>
  /\ rpc = "build"
  /\ command_index = 0
  /\ char_index = 0
  /\ advance = 0

NextText ==
  RenderBegin \/ RenderTextBegin \/ RenderGlyph \/ RenderTextEnd \/ RenderBlit

SpecText == InitText /\ [][NextText]_vars

\* ================================================================ claims
PresentPcs ==
  {"p_swap", "p_lock", "p_addfb", "p_flip", "p_wait", "p_destroy", "p_adopt",
   "p_sleep", "p_timer", "p_fps"}

LoadPcs ==
  {"l_terminal", "l_drm", "l_gbm", "l_egl", "l_lock", "l_addfb", "l_setcrtc",
   "l_framebuffer"}

\* Caller u holds a Graphics that a successful load() returned and that it has
\* not begun to drop.
Alive(u) == pc[u] = "ready" \/ pc[u] \in PresentPcs

\* The step is one of caller t's own.
Acts(t) == pc'[t] # pc[t] \/ steps'[t] # steps[t] \/ result'[t] # result[t]

\* C1: a load() that is called while another caller holds a live Graphics
\* returns AlreadyLoaded at once, and the call leaves the kernel's bindings, the
\* registered handles, the pending flips and the last mode-set as they were and
\* opens no device file.
C1_SecondLoadRejected ==
  [][\A t \in Callers :
       (pc[t] = "idle" /\ Acts(t) /\ \E u \in Callers : Alive(u))
         => /\ pc'[t] = "idle"
            /\ result'[t] = "AlreadyLoaded"
            /\ ~gfx'[t].drm.open
            /\ UNCHANGED <<kms, flip, fbs, events, last_modeset>>]_vars

\* C1 witness: a caller was turned away with AlreadyLoaded while the other
\* holds the Graphics whose first buffer the CRTC scans out.
C1_Witness ==
  \E t, u \in Callers :
    /\ pc[t] = "idle" /\ result[t] = "AlreadyLoaded" /\ steps[t] = <<"guard">>
    /\ pc[u] = "ready" /\ result[u] = "Ok"
    /\ kms.crtc[gfx[u].drm.crtc].fb = gfx[u].drm_fb

\* The calls of present_frame that come before the destroy of mod.rs:158.
BeforeDestroyPcs == {"p_swap", "p_lock", "p_addfb", "p_flip", "p_wait"}

\* C2 (as claimed): once present_frame has destroyed the previous handle, the
\* batch its event read returned holds the completion event of the flip this
\* call requested.
C2_DestroyAfterOwnFlipEvent ==
  \A t \in Callers :
    pc[t] = "p_adopt" => FlipEvent(gfx[t].new_fb) \in gfx[t].batch

\* C3: within present_frame the current handle stays the one the call began
\* with until it is replaced; handles are destroyed only by the step of
\* mod.rs:158, which destroys exactly that handle and never the handle the call
\* registered; the adoption makes the registered handle current, and it is
\* current and registered up to the return.
C3_RetiresPreviousHandle ==
  [][\A t \in Callers :
       /\ (pc[t] \in {"ready"} \cup BeforeDestroyPcs \cup {"p_destroy"}
             /\ pc'[t] \in PresentPcs \cup {"ready"})
            => gfx'[t].drm_fb = gfx[t].drm_fb
       /\ (pc[t] \in PresentPcs /\ ~(fbs[t] \subseteq fbs'[t]))
            => pc[t] = "p_destroy"
       /\ (pc[t] = "p_destroy" /\ pc'[t] = "p_adopt")
            => /\ gfx[t].drm_fb \in fbs[t]
               /\ fbs'[t] = fbs[t] \ {gfx[t].drm_fb}
               /\ gfx[t].new_fb # gfx[t].drm_fb
               /\ gfx[t].new_fb \in fbs'[t]
       /\ (pc[t] = "p_adopt" /\ pc'[t] # pc[t])
            => gfx'[t].drm_fb = gfx[t].new_fb
       /\ (pc[t] \in {"p_sleep", "p_timer", "p_fps"} /\ pc'[t] # pc[t])
            => /\ gfx'[t].drm_fb = gfx[t].drm_fb
               /\ gfx'[t].drm_fb \in fbs'[t]]_vars

\* C3 witness: a present_frame has returned Ok with a handle other than the
\* first one of load(), and that handle is the only one registered.
C3_Witness ==
  \E t \in Callers :
    /\ pc[t] = "ready" /\ result[t] = "Ok" /\ Len(steps[t]) > 0
    /\ steps[t][1] = "render"
    /\ fbs[t] = {gfx[t].drm_fb}
    /\ kms.crtc[gfx[t].drm.crtc].fb = gfx[t].drm_fb

\* C4: when present_frame returns from one of the calls before the destroy (the
\* swap, the acquire, the registration, the flip request, the event wait), it
\* returns an error, it has issued no destroy, no handle has been unregistered,
\* and the current handle and buffer object of Graphics are what they were; they
\* do not change during those calls either.
C4_EarlyFailureKeepsCurrent ==
  [][\A t \in Callers :
       /\ (pc[t] \in {"ready"} \cup BeforeDestroyPcs /\ pc'[t] \in PresentPcs)
            => /\ gfx'[t].drm_fb = gfx[t].drm_fb
               /\ gfx'[t].buffer_object = gfx[t].buffer_object
       /\ (pc[t] \in BeforeDestroyPcs /\ pc'[t] = "ready")
            => /\ result'[t] \in {"Egl", "FrontBuffer", "IO"}
               /\ gfx'[t].drm_fb = gfx[t].drm_fb
               /\ gfx'[t].buffer_object = gfx[t].buffer_object
               /\ gfx'[t].buffer_object \in gfx'[t].locked
               /\ fbs[t] \subseteq fbs'[t]
               /\ gfx'[t].drm_fb \in fbs'[t]
               /\ \A i \in DOMAIN steps'[t] : steps'[t][i] # "destroy"]_vars

\* C4 witness: a present_frame failed at the event wait, after an earlier one
\* had succeeded, and the current handle is still registered.
C4_Witness ==
  \E t \in Callers :
    /\ pc[t] = "ready" /\ result[t] = "IO"
    /\ steps[t] = <<"render", "swap", "acquire", "register", "flip", "wait">>
    /\ gfx[t].drm_fb \in fbs[t]
    /\ gfx[t].buffer_object \in gfx[t].locked

\* C5 (as claimed): whenever a caller holds a Graphics and is not inside a
\* call, the handles registered and not destroyed are exactly the current one.
C5_OneRegisteredHandle ==
  \A t \in Callers : pc[t] = "ready" => fbs[t] = {gfx[t].drm_fb}

\* What the CRTC c is bound to now: buffer, position, mode, and the outputs
\* it drives, in enumeration order.
BoundOutputs(c) ==
  LET drives(o) == CrtcOf(kms, o.handle) = c
      driven == SelectSeq(kms.connectors, drives)
  IN [i \in DOMAIN driven |-> driven[i].handle]

\* C6: when the Drm of a Graphics whose load() captured a binding has been
\* dropped, the last mode-set issued is the restoring one and asks for the
\* captured CRTC, buffer, position, outputs and mode; if the kernel accepted
\* it, that CRTC is bound to exactly the captured buffer, position and mode and
\* drives the captured outputs.
C6_RestoresCapturedBinding ==
  \A t \in Callers :
    (pc[t] = "d_terminal" /\ gfx[t].drm.original_state.some)
      => LET o == gfx[t].drm.original_state
         IN /\ last_modeset.by = t /\ last_modeset.restore
            /\ last_modeset.crtc = o.crtc
            /\ last_modeset.framebuffer = o.framebuffer
            /\ last_modeset.position = o.position
            /\ last_modeset.connectors = o.connectors
            /\ last_modeset.mode = o.mode
            /\ last_modeset.ok
                 => /\ kms.crtc[o.crtc] =
                         [fb |-> o.framebuffer, pos |-> o.position, mode |-> o.mode]
                    /\ BoundOutputs(o.crtc) = o.connectors

\* C6 witness: a Graphics that captured the boot binding and presented at least
\* one frame has dropped its Drm, and the kernel accepted the restore.
C6_Witness ==
  \E t \in Callers :
    /\ pc[t] = "d_terminal" /\ gfx[t].drm.original_state.some
    /\ gfx[t].drm.original_state.framebuffer \in ForeignFbs
    /\ gfx[t].drm_fb > 2
    /\ last_modeset.ok /\ last_modeset.restore

\* C7 (as claimed): when the process has ended, no Drm that captured a binding
\* is left undropped, that is, its restoring mode-set has been issued.
C7_RestoredBeforeExit ==
  exited => \A t \in Callers :
              ~(gfx[t].drm.open /\ gfx[t].drm.original_state.some)

\* C8: no two callers hold an open display device at the same time, and no two
\* callers are past the guard of load() at the same time.
C8_SingleInstance ==
  \A t, u \in Callers :
    t # u => /\ ~(gfx[t].drm.open /\ gfx[u].drm.open)
             /\ ~(pc[t] \in LoadPcs /\ pc[u] \in LoadPcs)

\* C8 witness: one caller is past the guard of load() while the other is still
\* tearing down its Graphics and holds the device.
C8_Witness ==
  \E t, u \in Callers :
    /\ pc[t] = "l_terminal"
    /\ pc[u] \in {"d_framebuffer", "d_buffer_object", "d_egl", "d_gbm", "d_drm"}
    /\ gfx[u].drm.open

PresentSteps ==
  <<"render", "swap", "acquire", "register", "flip", "wait", "destroy", "adopt",
    "sleep", "timer", "fps">>

\* C9: what a present_frame has done so far is always a prefix of render, swap,
\* acquire, register, flip, wait, destroy, adopt, sleep, timer, fps, and when it
\* returns Ok it has done all eleven, each once.
C9_PresentOrder ==
  \A t \in Callers :
    (Len(steps[t]) > 0 /\ steps[t][1] = "render")
      => /\ steps[t] = SubSeq(PresentSteps, 1, Len(steps[t]))
         /\ (pc[t] = "ready" /\ result[t] = "Ok") => steps[t] = PresentSteps

\* C9 witness: a present_frame has returned Ok.
C9_Witness ==
  \E t \in Callers :
    pc[t] = "ready" /\ result[t] = "Ok" /\ steps[t] = PresentSteps

\* C10 (as claimed): in the drop of Graphics, the Compositor's GPU objects have
\* been released before the current scanout handle is destroyed and before the
\* original binding is restored.
C10_GpuObjectsReleasedFirst ==
  \A t \in Callers : \A i \in DOMAIN steps[t] :
    steps[t][i] \in {"destroy_current", "restore"}
      => \E j \in 1..(i - 1) : steps[t][j] = "release_compositor"

\* The calls of load() in the order of mod.rs:81-102.
LoadSteps ==
  <<"guard", "terminal", "drm", "gbm", "egl", "acquire", "register", "modeset",
    "compositor">>

\* What caller t's log shows is a call of load().
IsLoadLog(t) == Len(steps[t]) > 0 /\ steps[t][1] = "guard"

\* The builds of the four components and the first mode-set in caller t's log.
BuildSteps(t) ==
  LET build(s) == s \in {"drm", "gbm", "egl", "compositor", "modeset"}
  IN SelectSeq(steps[t], build)

\* C11 (as claimed): load() builds the display device, the buffer chain, the
\* render context and the compositor in that order and only then performs the
\* first mode-set; a load() that returned Ok has done all five.
C11_LoadOrder ==
  \A t \in Callers :
    IsLoadLog(t)
      => LET claimed == <<"drm", "gbm", "egl", "compositor", "modeset">>
         IN /\ Len(BuildSteps(t)) <= 5
            /\ BuildSteps(t) = SubSeq(claimed, 1, Len(BuildSteps(t)))
            /\ (pc[t] = "ready" /\ result[t] = "Ok") => BuildSteps(t) = claimed

\* C11 (amended): load() builds the display device, the buffer chain and the
\* render context in that order, then performs the first mode-set, then builds
\* the compositor, then returns the Graphics; while a load() is under way every
\* step it has taken has succeeded (the device is open, the buffer chain and
\* the render context exist, the CRTC scans out the first handle), a load()
\* that returned Ok has taken all nine steps, and a load() that returned an
\* error has left no Graphics.
C11_LoadOrderAmended ==
  \A t \in Callers :
    IsLoadLog(t)
      => LET order == <<"drm", "gbm", "egl", "modeset", "compositor">>
             done(s) == \E i \in DOMAIN steps[t] : steps[t][i] = s
         IN /\ Len(steps[t]) <= Len(LoadSteps)
            /\ steps[t] = SubSeq(LoadSteps, 1, Len(steps[t]))
            /\ BuildSteps(t) = SubSeq(order, 1, Len(BuildSteps(t)))
            /\ (pc[t] \in LoadPcs \cup {"ready"})
                 => /\ done("drm") => gfx[t].drm.open
                    /\ done("gbm") => gfx[t].drm.open /\ gfx[t].gbm
                    /\ done("egl") => gfx[t].gbm /\ gfx[t].egl
                    /\ done("modeset")
                         => /\ gfx[t].egl
                            /\ last_modeset = FirstModeset(t, TRUE)
                            /\ kms.crtc[gfx[t].drm.crtc].fb = gfx[t].drm_fb
                    /\ done("compositor")
                         => /\ gfx[t].framebuffer /\ last_modeset = FirstModeset(t, TRUE)
                            /\ pc[t] = "ready" /\ result[t] = "Ok"
            /\ pc[t] = "ready" => steps[t] = LoadSteps
            /\ pc[t] = "idle" => gfx[t] = NoGraphics /\ result[t] # "Ok"

\* C11 witness: a load() has returned the Graphics after all nine steps.
C11_Witness ==
  \E t \in Callers :
    /\ pc[t] = "ready" /\ result[t] = "Ok" /\ steps[t] = LoadSteps
    /\ gfx[t].framebuffer /\ last_modeset = FirstModeset(t, TRUE)

\* The snapshot d holds is the binding the kernel k has for the CRTC behind
\* the selected output: none if the output is dark, else that CRTC's buffer,
\* position and mode and the outputs it drives, in enumeration order.
SnapshotOf(d, k) ==
  LET o == d.original_state
      c == CrtcOf(k, d.connector)
      drives(x) == CrtcOf(k, x.handle) = c
      driven == SelectSeq(k.connectors, drives)
  IN IF c = None THEN ~o.some
     ELSE /\ o.some /\ o.crtc = c
          /\ o.framebuffer = k.crtc[c].fb
          /\ o.position = k.crtc[c].pos
          /\ o.mode = k.crtc[c].mode
          /\ o.connectors = [i \in DOMAIN driven |-> driven[i].handle]

\* C12: no step of load() up to and including Drm::load changes the kernel's
\* bindings, the registered handles, the pending flips or the mode-sets
\* issued; the snapshot Drm::load returns is the binding the kernel holds at
\* that moment; and from then on, for as long as the Drm exists, no step
\* changes the snapshot.
C12_SnapshotBeforeMutation ==
  [][\A t \in Callers :
       /\ (pc[t] \in {"idle", "l_terminal", "l_drm"} /\ Acts(t))
            => UNCHANGED <<kms, fbs, flip, last_modeset>>
       /\ (pc[t] = "l_drm" /\ pc'[t] = "l_gbm") => SnapshotOf(gfx'[t].drm, kms)
       /\ (gfx[t].drm.open /\ pc'[t] # "idle")
            => gfx'[t].drm.original_state = gfx[t].drm.original_state]_vars

\* C12 witness: a Graphics that captured the boot binding has presented a
\* frame; the CRTC it captured no longer scans out the captured buffer, and
\* the snapshot still names it.
C12_Witness ==
  \E t \in Callers :
    /\ pc[t] = "ready" /\ result[t] = "Ok" /\ steps[t] = PresentSteps
    /\ gfx[t].drm.original_state.some
    /\ gfx[t].drm.original_state.framebuffer \in ForeignFbs
    /\ kms.crtc[gfx[t].drm.original_state.crtc].fb
         # gfx[t].drm.original_state.framebuffer

\* C20 (as claimed): from the end of Egl::load on, which issues the first
\* buffer swap, and at every buffer swap of present_frame, the swap interval of
\* the surface is 0.
C20_SwapIntervalZero ==
  \A t \in Callers :
    (gfx[t].egl /\ Len(steps[t]) > 0 /\ steps[t][Len(steps[t])] \in {"egl", "swap"})
      => gfx[t].swap_interval = 0

\* C13: the mode of a Drm that Drm::load returned is, of the mode list of the
\* output it selected (which is not empty), the first mode flagged preferred,
\* or the first mode of the list when no mode is flagged.
C13_PreferredElseFirst ==
  \A t \in Callers :
    gfx[t].drm.open
      => LET modes == kms.connectors[gfx[t].drm.connector].modes
         IN /\ modes # <<>>
            /\ \/ \E i \in DOMAIN modes :
                    /\ modes[i].preferred
                    /\ \A j \in 1..(i - 1) : ~modes[j].preferred
                    /\ gfx[t].drm.mode = modes[i].id
               \/ /\ \A j \in DOMAIN modes : ~modes[j].preferred
                  /\ gfx[t].drm.mode = modes[1].id

\* C13 witness: Drm::load has selected a mode that is not the first of its
\* list, of an output whose list flags more than one mode.
C13_Witness ==
  \E t \in Callers :
    /\ gfx[t].drm.open /\ pc[t] = "l_gbm"
    /\ LET modes == kms.connectors[gfx[t].drm.connector].modes
       IN /\ Len(modes) = 3 /\ ~modes[1].preferred
          /\ modes[2].preferred /\ modes[3].preferred
          /\ gfx[t].drm.mode = modes[2].id

\* C14: a Drm::load on a device with no connected output returns an error,
\* NoConnectors unless the device could not be opened or queried; on a device
\* with a connected output it never returns NoConnectors, and the output of the
\* Drm it returns is connected and no output before it in the enumeration is.
C14_FirstConnectedOutput ==
  [][\A t \in Callers :
       (pc[t] = "l_drm" /\ Acts(t))
         => LET connected == {i \in DOMAIN kms.connectors : kms.connectors[i].connected}
            IN /\ connected = {}
                    => pc'[t] = "idle" /\ result'[t] \in {"Drm:NoConnectors", "Drm:IO"}
               /\ connected # {} => result'[t] # "Drm:NoConnectors"
               /\ pc'[t] = "l_gbm"
                    => /\ gfx'[t].drm.open
                       /\ gfx'[t].drm.connector \in connected
                       /\ \A j \in connected : gfx'[t].drm.connector <= j]_vars

\* C14 witness: Drm::load has selected the second output of a device whose
\* first output is not connected.
C14_Witness ==
  \E t \in Callers :
    /\ gfx[t].drm.open /\ pc[t] = "l_gbm"
    /\ gfx[t].drm.connector = 2
    /\ ~kms.connectors[1].connected /\ kms.connectors[2].connected

ExecutedInOrder ==
  /\ \A i, j \in DOMAIN calls :
       (i < j /\ calls[i].cmd > 0 /\ calls[j].cmd > 0) => calls[i].cmd <= calls[j].cmd
  /\ \A k \in DOMAIN frame.draw_commands :
       k < command_index
         => \E i \in DOMAIN calls :
              /\ calls[i].op = "draw" /\ calls[i].cmd = k
              /\ calls[i].position = frame.draw_commands[k].position
              /\ calls[i].color = frame.draw_commands[k].color
  /\ \A i \in DOMAIN calls : calls[i].cmd <= command_index
  /\ \A i \in DOMAIN calls :
       calls[i].cmd = command_index => rpc \in {"text", "panicked"}

\* The colour the followed pixel must show: that of the last filled rect of the
\* frame covering it, the clear colour when there is none.
TopColor ==
  LET over == {k \in DOMAIN frame.draw_commands :
                 /\ frame.draw_commands[k].kind = "Rect"
                 /\ frame.draw_commands[k].filled
                 /\ Covers(frame.draw_commands[k].position, frame.draw_commands[k].size)}
  IN IF over = {} THEN frame.clear_color
     ELSE frame.draw_commands[CHOOSE k \in over : \A j \in over : j <= k].color

\* C15: a draw call on the Frame puts its command after the commands the frame
\* holds, which stay as they are; present_frame executes the commands in that
\* order, all of them by the time it returns; and of the filled rects covering
\* a pixel, the one appended last gives the pixel its colour on the screen.
C15_CommandOrder ==
  [][/\ (rpc = "build" /\ rpc' = "build"
           /\ frame'.draw_commands # frame.draw_commands)
          => /\ Len(frame'.draw_commands) = Len(frame.draw_commands) + 1
             /\ SubSeq(frame'.draw_commands, 1, Len(frame.draw_commands))
                  = frame.draw_commands
     /\ rpc' # "build" => ExecutedInOrder'
     /\ rpc' = "returned"
          => /\ command_index' = Len(frame'.draw_commands) + 1
             /\ screen' = TopColor']_vars

\* C15 witness: present_frame returned for a frame of two filled rects at the
\* same place, red then blue, and the screen shows blue there.
C15_Witness ==
  /\ rpc = "returned"
  /\ Len(frame.draw_commands) = 2
  /\ frame.draw_commands[1] = RectCommand(<<0, 0>>, <<2, 2>>, "red", TRUE)
  /\ frame.draw_commands[2] = RectCommand(<<0, 0>>, <<2, 2>>, "blue", TRUE)
  /\ screen = "blue"

\* C16: a present_frame that has ended has issued, first, one clear of the
\* off-screen target to the frame's clear colour, then only draws on the
\* off-screen target, and last, one draw of the off-screen texture on the
\* screen; for a frame without commands these two calls are all, and the screen
\* shows the clear colour.
C16_ClearOnceBlitOnce ==
  rpc \in {"returned", "panicked"}
    => /\ Len(calls) >= 2
       /\ calls[1] = ClearCall("offscreen", frame.clear_color)
       /\ calls[Len(calls)]
            = DrawCall("screen", "screen", "quad", <<0, 0>>, <<0, 0>>, "offscreen", 0)
       /\ \A i \in 2..(Len(calls) - 1) :
            calls[i].op = "draw" /\ calls[i].target = "offscreen"
       /\ frame.draw_commands = <<>>
            => Len(calls) = 2 /\ screen = frame.clear_color

\* The quads drawn so far for the text command at position 1 of the frame:
\* the calls after the clear that carry its number.
QuadCount == Cardinality({i \in DOMAIN calls : calls[i].op = "draw" /\ calls[i].cmd = 1})

\* The x position of the k-th of these quads.
QuadX(k) == calls[k + 1].position[1]

\* C18: the text command draws one quad per character; the first quad is at
\* the text position, each further one at the x of the quad before it plus the
\* stored advance of the glyph drawn there; y is the y of the text position
\* throughout; and the x positions are strictly increasing.
C18_StrictlyLeftToRight ==
  LET text == frame.draw_commands[1].text
      font == frame.draw_commands[1].font
      position == frame.draw_commands[1].position
  IN rpc # "build"
       => /\ command_index = 2 => QuadCount = Len(text)
          /\ QuadCount <= Len(text)
          /\ QuadCount >= 1 => QuadX(1) = position[1]
          /\ \A k \in 1..(QuadCount - 1) :
               QuadX(k + 1) = QuadX(k) + GlyphOrDefault(font, text[k]).advance
          /\ \A k \in 1..QuadCount : calls[k + 1].position[2] = position[2]
          /\ \A k \in 1..(QuadCount - 1) : QuadX(k + 1) > QuadX(k)

\* C19: drawing the text command never panics; once it is through, every
\* character has its quad, and a character without a glyph in the font took
\* the place of the font's glyph 0: the quad after it is that glyph's advance
\* further on.
C19_MissingGlyphFallback ==
  LET text == frame.draw_commands[1].text
      font == frame.draw_commands[1].font
  IN /\ rpc # "panicked"
     /\ command_index = 2 => QuadCount = Len(text)
     /\ rpc # "build"
          => \A k \in 1..(QuadCount - 1) :
               ~Glyph(font, text[k]).some
                 => QuadX(k + 1) = QuadX(k) + font.glyphs[1].advance

\* C21: Egl::load goes on to the context and the window surface only with the
\* gbm surface rebuilt in the negotiated format, and a rebuild that fails ends
\* load() with an error; no window surface is ever bound to the provisional
\* surface and no buffer is ever acquired from it.
C21_SurfaceRebuiltBeforeUse ==
  [][\A t \in Callers :
       /\ (pc[t] = "l_egl" /\ pc'[t] = "l_lock")
            => /\ gfx[t].surface = "provisional"
               /\ gfx'[t].surface = "negotiated"
               /\ gfx'[t].window = "negotiated"
       /\ result'[t] = "Egl:BadSurface" => pc'[t] = "idle" /\ ~gfx'[t].egl
       /\ gfx'[t].window # "provisional"
       /\ "provisional" \notin gfx'[t].acquired
       /\ gfx'[t].acquired # gfx[t].acquired
            => gfx'[t].acquired \subseteq {gfx'[t].window}]_vars

\* C21 witness: a present_frame has acquired its buffer, after the one of
\* load(), from the surface the window surface is bound to.
C21_Witness ==
  \E t \in Callers :
    /\ pc[t] = "p_addfb" /\ gfx[t].new_bo # None
    /\ gfx[t].acquired = {"negotiated"} /\ gfx[t].window = "negotiated"

\* C22: the open of the display device fails exactly when the listing holds no
\* character device named card* that can be opened for reading and writing,
\* be it that none matches or that none of the matching ones opens.
C22_OpenFailsOnlyWithoutDevice ==
  [][\A t \in Callers :
       (pc[t] = "l_drm" /\ Acts(t))
         => LET nodes == kms.nodes
                openable == {i \in DOMAIN nodes :
                               /\ nodes[i].readable /\ nodes[i].char_device
                               /\ nodes[i].card /\ nodes[i].opens}
            IN result'[t] \in {"Drm:IO:NotFound", "Drm:IO:Open"} <=> openable = {}]_vars

\* The steps of the drop of a Graphics, with and without a captured binding.
TeardownSteps(restores) ==
  <<"destroy_current", "clear_guard", "release_compositor", "release_buffer_object",
    "drop_egl", "drop_gbm", IF restores THEN "restore" ELSE "drop_drm",
    "drop_terminal">>

\* C23: the drop of a Graphics, once begun, takes every step of the teardown
\* whatever the destroy of the current handle and the restoring mode-set
\* return: each step hands over to the next and reports no error and no panic,
\* the guard is cleared, a captured binding gets its restoring mode-set, and at
\* the end all eight steps have run in order.
C23_TeardownRunsThrough ==
  [][\A t \in Callers :
       LET d == gfx[t].drm IN
       /\ (steps'[t] # steps[t] /\ steps'[t][1] = "destroy_current")
            => /\ result'[t] \in {"none", "dropped"}
               /\ steps'[t] = SubSeq(TeardownSteps(d.original_state.some), 1,
                                     Len(steps'[t]))
               /\ Len(steps'[t]) = 8 <=> pc'[t] = "idle"
               /\ Len(steps'[t]) < 8 => pc'[t] \notin {"idle", "ready"}
       /\ (pc[t] = "ready" /\ Acts(t) /\ steps'[t] = <<"destroy_current">>)
            => pc'[t] = "d_flag"
       /\ (pc[t] = "d_flag" /\ Acts(t)) => ~GRAPHICS_LOADED'
       /\ (pc[t] = "d_drm" /\ Acts(t) /\ d.original_state.some)
            => last_modeset'.by = t /\ last_modeset'.restore]_vars

\* C23 witness: a drop has run to its end although the kernel refused the
\* restoring mode-set.
C23_Witness ==
  \E t \in Callers :
    /\ pc[t] = "idle" /\ result[t] = "dropped"
    /\ steps[t] = TeardownSteps(TRUE)
    /\ last_modeset.by = t /\ last_modeset.restore /\ ~last_modeset.ok

\* C24: at every Input::update and for every button, just_pressed afterwards
\* is "pressed after this update and not pressed after the one before" and
\* just_released is "not pressed after this update and pressed after the one
\* before"; the two are never both true; a button held over two consecutive
\* updates does not report just_pressed after the second.
C24_EdgesFollowUpdates ==
  /\ [](\A b \in Buttons : ~(just_pressed(b) /\ just_released(b)))
  /\ [][input_vars' # input_vars
          => \A b \in Buttons :
               /\ just_pressed(b)' <=> (is_pressed(b)' /\ ~is_pressed(b))
               /\ just_released(b)' <=> (~is_pressed(b)' /\ is_pressed(b))
               /\ (is_pressed(b) /\ is_pressed(b)') => ~just_pressed(b)']_vars

\* C24 witness: after two updates one button has just been released while the
\* other has just been pressed.
C24_Witness ==
  /\ just_released("A") /\ ~just_pressed("A")
  /\ just_pressed("Start") /\ ~just_released("Start")

\* C25: TerminalGuard::new() returns EALREADY and builds no guard whenever some
\* caller holds a terminal guard; once a guard is dropped, at the end of a
\* teardown or on a failing load(), the next new() is not rejected with
\* EALREADY; at no time do two guards exist.
C25_OneTerminalGuard ==
  /\ [](\A t, u \in Callers :
          (gfx[t].terminal_guard /\ gfx[u].terminal_guard) => t = u)
  /\ [][\A t \in Callers :
          /\ (pc[t] = "l_terminal" /\ Acts(t))
               => /\ (\E u \in Callers : gfx[u].terminal_guard)
                       => /\ result'[t] = "IO:EALREADY"
                          /\ ~gfx'[t].terminal_guard
                          /\ \A u \in Callers : gfx'[u].terminal_guard = gfx[u].terminal_guard
                  /\ ~CREATED => result'[t] # "IO:EALREADY"
          /\ (gfx[t].terminal_guard /\ ~gfx'[t].terminal_guard) => ~CREATED']_vars

\* C25 witness: a caller's TerminalGuard::new() has been rejected with EALREADY
\* while the other caller, late in its teardown, still holds its guard.
C25_Witness ==
  \E t, u \in Callers :
    /\ result[t] = "IO:EALREADY" /\ ~gfx[t].terminal_guard
    /\ gfx[u].terminal_guard /\ CREATED

\* C26: whenever no caller holds a Graphics, is inside load() or is tearing a
\* Graphics down, GRAPHICS_LOADED is clear, so that the next load() is not
\* rejected with AlreadyLoaded.
C26_GuardClearWhenIdle ==
  (\A t \in Callers : pc[t] = "idle") => ~GuardRejects(GRAPHICS_LOADED)

\* C27: whenever present_frame returns, with success or with an error, the
\* handle the Graphics records as current is the handle its CRTC scans out.
C27_RecordedIsScannedOut ==
  [][\A t \in Callers :
       (pc[t] \in PresentPcs /\ pc'[t] = "ready")
         => gfx'[t].drm_fb = kms'.crtc[gfx'[t].drm.crtc].fb]_vars

\* C28: when load() fails at the first mode-set or at the construction of the
\* compositor, after it registered the first scanout handle, then as load()
\* returns the caller's device file holds no handle, no CRTC scans out one of
\* the handles it held and no flip to one of them is waiting.
C28_NoHandleOutlivesFailedLoad ==
  [][\A t \in Callers :
       (pc[t] \in {"l_setcrtc", "l_framebuffer"} /\ pc'[t] = "idle")
         => /\ fbs[t] # {} /\ fbs'[t] = {}
            /\ \A c \in Crtcs : /\ kms'.crtc[c].fb \notin fbs[t]
                                /\ flip'[c].fb \notin fbs[t]]_vars

\* C28 witness: load() has failed at the construction of the compositor, after
\* the first mode-set, and the caller holds no handle.
C28_Witness ==
  \E t \in Callers :
    /\ pc[t] = "idle" /\ result[t] = "Framebuffer" /\ steps[t] = LoadSteps
    /\ fbs[t] = {} /\ last_modeset.by = t

\* C29: a buffer object is released to the surface only when the CRTC neither
\* scans out the handle it backs nor has a flip to it waiting: the previous
\* buffer object of present_frame after the flip has completed, the current one
\* at teardown, and only after a captured binding has been restored.
C29_ReleasedAfterScanoutStops ==
  [][\A t \in Callers :
       LET g == gfx[t]
           Released(bo) == bo \in g.locked /\ bo \notin gfx'[t].locked
           Scanned(fb) == /\ fb # None
                          /\ \/ kms.crtc[g.drm.crtc].fb = fb
                             \/ flip[g.drm.crtc].fb = fb
       IN /\ Released(g.buffer_object)
               => /\ ~Scanned(g.drm_fb)
                  /\ (pc[t] = "d_buffer_object" /\ g.drm.original_state.some)
                       => \E i \in DOMAIN steps[t] : steps[t][i] = "restore"
          /\ Released(g.new_bo) => ~Scanned(g.new_fb)]_vars

\* C30: every mode-set a caller issues, the restoring one included, and every
\* page flip it requests goes to the CRTC its Drm selected, and the CRTC of a
\* captured binding is that CRTC.
C30_OneCrtc ==
  [][\A t \in Callers :
       /\ (last_modeset' # last_modeset /\ last_modeset'.by = t)
            => last_modeset'.crtc = gfx[t].drm.crtc
       /\ \A c \in Crtcs : (flip'[c] # flip[c] /\ flip'[c].by = t)
                             => c = gfx[t].drm.crtc
       /\ (gfx'[t].drm.open /\ gfx'[t].drm.original_state.some)
            => gfx'[t].drm.original_state.crtc = gfx'[t].drm.crtc]_vars

\* C31: no call of load() ends in a panic: every failure is a returned error.
C31_LoadNeverPanics ==
  \A t \in Callers : IsLoadLog(t) => result[t] # "panic"

\* C32: a Drm::load that has selected an output returns NoCRTC exactly when
\* no encoder the output lists has a CRTC whose state can be read; a Drm it
\* returns carries the CRTC of the first listed encoder that has such a CRTC.
C32_FirstReadableCrtc ==
  [][\A t \in Callers :
       (pc[t] = "l_drm" /\ Acts(t) /\ FindConnector(kms) # 0
          /\ result'[t] \notin {"Drm:IO", "Drm:IO:NotFound", "Drm:IO:Open"})
         => LET encs == kms.connectors[FindConnector(kms)].encoders
                good == {j \in DOMAIN encs :
                           /\ kms.enc_crtc[encs[j]] # None
                           /\ kms.enc_crtc[encs[j]] \notin kms.crtc_unreadable}
            IN /\ result'[t] = "Drm:NoCRTC" <=> good = {}
               /\ good # {}
                    => /\ pc'[t] = "l_gbm"
                       /\ \E j \in good : /\ gfx'[t].drm.crtc = kms.enc_crtc[encs[j]]
                                          /\ \A i \in good : j <= i]_vars

\* C33: of two calls of GraphicsContext::load that overlap in time, at most
\* one passes the check, opens the device and issues the mode-set: no call
\* issues its mode-set while the other, still running, has opened the device
\* behind the check.
C33_OneCallPastTheCheck ==
  [][\A t, u \in Callers :
       (t # u /\ lpc[t] = "g_setcrtc" /\ lpc'[t] # lpc[t])
         => lpc[u] \notin {"g_gbm", "g_egl", "g_lock", "g_addfb", "g_setcrtc",
                           "g_store"}]_vars

\* C34: the device file has one reference per holder (the Drm, the Gbm), so it
\* is open as long as either exists, and handles are registered on an open file
\* only; it has both references when the drop of Graphics destroys the current
\* handle and the Drm's own when Drop for Drm issues the restoring mode-set,
\* and that is the last one to go.
C34_FileOpenWhileHeld ==
  /\ [](\A t \in Callers :
          /\ gfx[t].gpu_refs = (IF gfx[t].drm.open THEN 1 ELSE 0)
                               + (IF gfx[t].gbm THEN 1 ELSE 0)
          /\ fbs[t] # {} => gfx[t].gpu_refs > 0)
  /\ [][\A t \in Callers :
          /\ (pc[t] = "ready" /\ pc'[t] = "d_flag") => gfx[t].gpu_refs = 2
          /\ (pc[t] = "d_drm" /\ Acts(t))
               => gfx[t].gpu_refs = 1 /\ gfx'[t].gpu_refs = 0]_vars

\* C34 witness: the Gbm is gone, the Drm is about to restore, and the file,
\* held by the Drm alone, still carries a registered handle.
C34_Witness ==
  \E t \in Callers :
    /\ pc[t] = "d_drm" /\ ~gfx[t].gbm /\ gfx[t].drm.open
    /\ gfx[t].gpu_refs = 1 /\ fbs[t] # {}

\* C35: fps and the frame count are 0 when load() returns; they change only
\* in the update at the end of a successful present_frame; an update whose
\* window is shorter than a second adds one to the count and leaves fps alone;
\* an update whose window has reached a second sets fps to the frames of the
\* window, this one included, over the window's length, rounded, and restarts
\* the count at 0; a present_frame that fails changes neither.
C35_FpsPerWindow ==
  /\ [](\A t \in Callers :
          pc[t] \in LoadPcs => gfx[t].fps = 0 /\ gfx[t].fps_frames = 0)
  /\ [][\A t \in Callers :
          LET g == gfx[t]
              h == gfx'[t]
          IN /\ (h.fps # g.fps \/ h.fps_frames # g.fps_frames)
                  => pc[t] = "p_fps" /\ pc'[t] = "ready" /\ result'[t] = "Ok"
             /\ h.fps # g.fps => h.fps_elapsed >= Second /\ h.fps_frames = 0
             /\ (pc[t] = "p_fps" /\ Acts(t))
                  => IF h.fps_elapsed >= Second
                     THEN /\ h.fps_frames = 0
                          /\ 2 * h.fps * h.fps_elapsed
                               <= 2 * (g.fps_frames + 1) * Second + h.fps_elapsed
                          /\ 2 * (g.fps_frames + 1) * Second + h.fps_elapsed
                               < 2 * (h.fps + 1) * h.fps_elapsed
                     ELSE h.fps_frames = g.fps_frames + 1 /\ h.fps = g.fps
             /\ (pc[t] \in PresentPcs /\ pc'[t] = "ready" /\ result'[t] # "Ok")
                  => h.fps = g.fps /\ h.fps_frames = g.fps_frames]_vars

\* C35 witness: a window of one and a half seconds has ended with its third
\* frame, after a present_frame had failed, and fps is 2.
C35_Witness ==
  \E t \in Callers :
    /\ pc[t] = "ready" /\ result[t] = "Ok"
    /\ gfx[t].fps = 2 /\ gfx[t].fps_frames = 0 /\ gfx[t].fps_elapsed = 3
    /\ Cardinality(fbs[t]) > 1

\* C36: after every Ui::render() the stored focus index is below the number of
\* focusable widgets the frame emitted, and 0 when it emitted none;
\* begin_frame moves the focus by at most one position, never below 0 and
\* never beyond the last widget index of the previous frame.
C36_FocusWithinWidgets ==
  [][/\ ui_log'.op = "render"
          => IF ui_log.emitted > 0 THEN ui'.focus_index < ui_log.emitted
             ELSE ui'.focus_index = 0
     /\ ui_log'.op = "begin_frame"
          => /\ ui'.frame_focus_index - ui.focus_index \in {-1, 0, 1}
             /\ ui'.frame_focus_index >= 0
             /\ ui'.frame_focus_index <= SaturatingSub(ui.last_widget_count, 1)]_vars

\* C36 witness: the focus was on the third widget, the frame emitted two, and
\* render has put the focus on the second.
C36_Witness ==
  /\ ui_log.op = "render"
  /\ ui.frame_focus_index = 2 /\ ui_log.emitted = 2 /\ ui.focus_index = 1

\* C37: between begin_frame and render at most one button, checkbox or radio
\* call reports an activation, and a call reports one only when its widget
\* index is the frame's focus index and A was just pressed.
C37_OneActivationPerFrame ==
  /\ [](ui_log.in_frame => ui_log.activations <= 1)
  /\ [][(ui_log'.op \in Activating /\ ui_log'.returned /\ ui' # ui)
          => ui.widget_index = ui.frame_focus_index /\ "A" \in ui.just_pressed]_vars

\* C38: a Frame draw call (sprite, text, rect, rect outline, line) appends one
\* command at the end and leaves the earlier commands and the clear colour as
\* they are; set_clear_color changes the clear colour only; a default Frame
\* has no commands and a black clear colour; none of these calls issues a GPU
\* or display call.
C38_FrameCallsAreData ==
  [][/\ (rpc = "build" /\ rpc' = "build" /\ frame' # frame)
          => /\ \/ /\ Len(frame'.draw_commands) = Len(frame.draw_commands) + 1
                   /\ SubSeq(frame'.draw_commands, 1, Len(frame.draw_commands))
                        = frame.draw_commands
                   /\ frame'.draw_commands[Len(frame'.draw_commands)].kind
                        \in {"Sprite", "Text", "Rect", "Line"}
                   /\ frame'.clear_color = frame.clear_color
                \/ frame'.draw_commands = frame.draw_commands
             /\ UNCHANGED <<calls, target, canvas, screen, display_vars>>
     /\ (rpc = "returned" /\ rpc' = "build")
          => frame'.draw_commands = <<>> /\ frame'.clear_color = "black"]_vars

\* C38 witness: a frame under construction holds a sprite and then a line,
\* its clear colour was set to red, and no GPU call has been issued.
C38_Witness ==
  /\ rpc = "build" /\ calls = <<>>
  /\ Len(frame.draw_commands) = 2
  /\ frame.draw_commands[1].kind = "Sprite" /\ frame.draw_commands[2].kind = "Line"
  /\ frame.clear_color = "red"

====
